---- MODULE Spec2Model ----
(***************************************************************************)
(* Identity, token lifecycle, rate limiting, RBAC and edge routing of the   *)
(* TaskPM backend (shared/auth, auth_service, api_gateway).                 *)
(*                                                                          *)
(* Python values are encoded as follows.  None is the sentinel string       *)
(* None; a raised HTTPException is a result whose status is the HTTP code   *)
(* (as a string) and whose detail is the sequence of the pieces of the      *)
(* message; any other exception is a result whose status is the name of     *)
(* the exception class.                                                     *)
(***************************************************************************)
EXTENDS Integers, Sequences, FiniteSets, TLC

VARIABLES
    rbac,       \* the last PermissionEngine call: its arguments and its result
    now,        \* the wall clock, in ticks
    orgOf,      \* the org service's answer for each user: its org context
    issued,     \* the token pairs login / register have handed out
    nextJti,    \* the next fresh jti (uuid4 never repeats)
    redis,      \* the auth service's key-value store: entries (key, expires_at)
    auth,       \* the last token operation: its arguments and its result
    loggedOut,  \* history: the refresh tokens for which logout has returned normally
    rateClient, \* the gateway's _redis_client: "none" or "connected"
    zset,       \* the sorted set rate_limit:{client_id}: entries (member, score)
    keyExpiry,  \* when the key rate_limit:{client_id} expires (0: no such key)
    reqs,       \* the gateway's requests, in order of arrival
    execOrder,  \* history: the requests whose pipeline has executed, in that order
    publicKey,  \* the gateway's settings.public_key: "pem", or "" (file not found)
    gw,         \* the request the proxy handler is serving, and its response
    health,     \* the run of services_health under way, and what it returned
    svc,        \* the request a downstream service is handling, and its answer
    memberships,\* the committed rows of org_memberships and project_memberships
    txns        \* the membership calls: each one's session and position

rbacVars == <<rbac>>

authVars == <<now, orgOf, issued, nextJti, redis, auth, loggedOut>>

rateVars == <<rateClient, zset, keyExpiry, reqs, execOrder>>

gwVars == <<publicKey, gw>>

downstreamVars == <<health, svc, memberships, txns>>

vars == <<rbac, now, orgOf, issued, nextJti, redis, auth, loggedOut,
          rateClient, zset, keyExpiry, reqs, execOrder, publicKey, gw,
          health, svc, memberships, txns>>

None == "<None>"

(***************************************************************************)
(* shared/auth/rbac.py : roles, permissions and the two permission tables   *)
(***************************************************************************)
OrgRole == {"org_admin", "proj_admin", "member"}

ProjectRole == {"owner", "admin", "project_manager", "team_member", "viewer"}

ProjectPermission ==
    {"delete_project", "edit_project", "manage_members", "assign_roles",
     "create_task", "edit_any_task", "delete_any_task", "edit_assigned_task",
     "delete_assigned_task", "assign_task", "change_status", "post_comment",
     "log_time", "manage_attachments", "view"}

OrgPermission ==
    {"manage_org_members", "manage_org_roles", "manage_projects",
     "manage_teams", "manage_org_settings", "view_analytics"}

\* PROJECT_PERMISSIONS with the viewer row also granting post_comment
PROJECT_PERMISSIONS_ViewerComments(role) ==
    CASE role = "owner" ->
            {"delete_project", "edit_project", "manage_members", "assign_roles",
             "create_task", "edit_any_task", "delete_any_task", "assign_task",
             "change_status", "post_comment", "log_time", "manage_attachments",
             "view"}
      [] role = "admin" ->
            {"edit_project", "manage_members", "assign_roles", "create_task",
             "edit_any_task", "delete_any_task", "assign_task", "change_status",
             "post_comment", "log_time", "manage_attachments", "view"}
      [] role = "project_manager" ->
            {"create_task", "edit_any_task", "delete_any_task", "assign_task",
             "change_status", "post_comment", "log_time", "manage_attachments",
             "view"}
      [] role = "team_member" ->
            {"create_task", "edit_assigned_task", "delete_assigned_task",
             "change_status", "post_comment", "log_time", "manage_attachments",
             "view"}
      [] role = "viewer" -> {"view", "post_comment"}

\* the table: project role -> set of permissions
PROJECT_PERMISSIONS(role) ==
    CASE role = "owner" ->
            {"delete_project", "edit_project", "manage_members", "assign_roles",
             "create_task", "edit_any_task", "delete_any_task", "assign_task",
             "change_status", "post_comment", "log_time", "manage_attachments",
             "view"}
      [] role = "admin" ->
            {"edit_project", "manage_members", "assign_roles", "create_task",
             "edit_any_task", "delete_any_task", "assign_task", "change_status",
             "post_comment", "log_time", "manage_attachments", "view"}
      [] role = "project_manager" ->
            {"create_task", "edit_any_task", "delete_any_task", "assign_task",
             "change_status", "post_comment", "log_time", "manage_attachments",
             "view"}
      [] role = "team_member" ->
            {"create_task", "edit_assigned_task", "delete_assigned_task",
             "change_status", "post_comment", "log_time", "manage_attachments",
             "view"}
      [] role = "viewer" -> {"view"}

\* the table: org role -> set of permissions
ORG_PERMISSIONS(role) ==
    CASE role = "org_admin" ->
            {"manage_org_members", "manage_org_roles", "manage_projects",
             "manage_teams", "manage_org_settings", "view_analytics"}
      [] role = "proj_admin" -> {"manage_projects", "manage_teams"}
      [] role = "member" -> {}

(***************************************************************************)
(* The inputs of the permission checks.  TokenData.org_role is any string   *)
(* a signed token carries, or None; a membership is None or a dict, which   *)
(* may be empty, may lack the key "role", and may carry a role string that  *)
(* is no ProjectRole.                                                       *)
(***************************************************************************)
UserIds == {"u1"}

OrgIds == {"o1"}

OrgRoleValues == OrgRole \cup {None, "", "bogus"}

\* the e-mail address registered for a user id
EmailOf(user_id) == <<user_id, "@example.com">>

TokenDatas ==
    [user_id : UserIds, email : {EmailOf(u) : u \in UserIds},
     org_id : OrgIds \cup {None}, org_role : OrgRoleValues]

MembershipRoleValues == ProjectRole \cup {"bogus"}

\* isNone: the value None; hasRole: the dict has the key "role";
\* hasOther: the dict has some other key (user_id, org_id)
Memberships ==
    {[isNone |-> TRUE, hasRole |-> FALSE, role |-> "", hasOther |-> FALSE]}
    \cup [isNone : {FALSE}, hasRole : {FALSE}, role : {""}, hasOther : BOOLEAN]
    \cup [isNone : {FALSE}, hasRole : {TRUE}, role : MembershipRoleValues,
          hasOther : BOOLEAN]

\* Python truthiness of a membership: None and {} are falsy
Truthy(membership) ==
    ~membership.isNone /\ (membership.hasRole \/ membership.hasOther)

\* PermissionResult(role, user_id, org_id, check_assignment=False)
PermissionResult(role, user_id, org_id, check_assignment) ==
    [status |-> "ok", detail |-> <<>>, role |-> role, user_id |-> user_id,
     org_id |-> org_id, check_assignment |-> check_assignment]

\* a raised exception: HTTPException(status, detail), ValueError, KeyError
Raised(status, detail) ==
    [status |-> status, detail |-> detail, role |-> "", user_id |-> "",
     org_id |-> "", check_assignment |-> FALSE]

\* user.org_id or ""
OrEmpty(v) == IF v = None THEN "" ELSE v

\* check_org_permission that looks the table up before testing for a role
check_org_permission_NoRoleCheckLast(user, permission) ==
    IF user.org_role \notin OrgRole /\ user.org_role \notin {None, ""}
    THEN Raised("ValueError", <<user.org_role>>)
    ELSE IF user.org_role \in OrgRole
            /\ permission \in ORG_PERMISSIONS(user.org_role)
    THEN [status |-> "ok", detail |-> <<>>, role |-> "", user_id |-> "",
          org_id |-> "", check_assignment |-> FALSE]
    ELSE Raised("403", <<"Org Permission '", permission, "' denied">>)

check_org_permission(user, permission) ==
    IF user.org_role \in {None, ""}
    THEN Raised("403", <<"No organization role assigned">>)
    ELSE IF user.org_role \notin OrgRole
    THEN Raised("ValueError", <<user.org_role>>)
    ELSE IF permission \notin ORG_PERMISSIONS(user.org_role)
    THEN Raised("403", <<"Org Permission '", permission, "' denied for role '",
                         user.org_role, "'">>)
    ELSE [status |-> "ok", detail |-> <<>>, role |-> "", user_id |-> "",
          org_id |-> "", check_assignment |-> FALSE]

\* check_project_permission with the org_admin bypass placed after the
\* membership test
check_project_permission_BypassAfterMembership(user, membership, permission) ==
    IF ~Truthy(membership)
    THEN Raised("403", <<"Not a member of this project">>)
    ELSE IF user.org_role = "org_admin"
    THEN PermissionResult("org_admin", user.user_id, OrEmpty(user.org_id), FALSE)
    ELSE IF ~membership.hasRole
    THEN Raised("KeyError", <<"role">>)
    ELSE IF membership.role \notin ProjectRole
    THEN Raised("ValueError", <<membership.role>>)
    ELSE IF permission \notin PROJECT_PERMISSIONS(membership.role)
    THEN Raised("403", <<"Permission '", permission, "' denied for role '",
                         membership.role, "'">>)
    ELSE PermissionResult(membership.role, user.user_id, OrEmpty(user.org_id),
            membership.role = "team_member"
            /\ permission \in {"edit_assigned_task", "delete_assigned_task"})

\* check_project_permission that sets check_assignment for every team_member
check_project_permission_AssignmentByRoleOnly(user, membership, permission) ==
    IF user.org_role = "org_admin"
    THEN PermissionResult("org_admin", user.user_id, OrEmpty(user.org_id), FALSE)
    ELSE IF ~Truthy(membership)
    THEN Raised("403", <<"Not a member of this project">>)
    ELSE IF ~membership.hasRole
    THEN Raised("KeyError", <<"role">>)
    ELSE IF membership.role \notin ProjectRole
    THEN Raised("ValueError", <<membership.role>>)
    ELSE IF permission \notin PROJECT_PERMISSIONS(membership.role)
    THEN Raised("403", <<"Permission '", permission, "' denied for role '",
                         membership.role, "'">>)
    ELSE PermissionResult(membership.role, user.user_id, OrEmpty(user.org_id),
            membership.role = "team_member")

\* check_project_permission that skips the membership test
check_project_permission_NoMembershipTest(user, membership, permission) ==
    IF user.org_role = "org_admin"
    THEN PermissionResult("org_admin", user.user_id, OrEmpty(user.org_id), FALSE)
    ELSE IF ~membership.hasRole
    THEN PermissionResult("viewer", user.user_id, OrEmpty(user.org_id), FALSE)
    ELSE IF membership.role \notin ProjectRole
    THEN Raised("ValueError", <<membership.role>>)
    ELSE IF permission \notin PROJECT_PERMISSIONS(membership.role)
    THEN Raised("403", <<"Permission '", permission, "' denied for role '",
                         membership.role, "'">>)
    ELSE PermissionResult(membership.role, user.user_id, OrEmpty(user.org_id),
            membership.role = "team_member"
            /\ permission \in {"edit_assigned_task", "delete_assigned_task"})

check_project_permission(user, membership, permission) ==
    IF user.org_role = "org_admin"
    THEN PermissionResult("org_admin", user.user_id, OrEmpty(user.org_id), FALSE)
    ELSE IF ~Truthy(membership)
    THEN Raised("403", <<"Not a member of this project">>)
    ELSE IF ~membership.hasRole
    THEN Raised("KeyError", <<"role">>)
    ELSE IF membership.role \notin ProjectRole
    THEN Raised("ValueError", <<membership.role>>)
    ELSE IF permission \notin PROJECT_PERMISSIONS(membership.role)
    THEN Raised("403", <<"Permission '", permission, "' denied for role '",
                         membership.role, "'">>)
    ELSE PermissionResult(membership.role, user.user_id, OrEmpty(user.org_id),
            membership.role = "team_member"
            /\ permission \in {"edit_assigned_task", "delete_assigned_task"})

\* check_org_role(user, roles): returns None, or raises; roles is the list
\* of the required roles, taken as the set of its elements
check_org_role(user, roles) ==
    IF user.org_role \in {None, ""}
    THEN Raised("403", <<"No organization role assigned">>)
    ELSE IF user.org_role \notin OrgRole
    THEN Raised("ValueError", <<user.org_role>>)
    ELSE IF "org_admin" \in roles /\ user.org_role = "org_admin"
    THEN Raised("ok", <<>>)
    ELSE IF user.org_role \notin roles
    THEN Raised("403", <<"Requires one of: ", roles>>)
    ELSE Raised("ok", <<>>)

NoMembership ==
    [isNone |-> TRUE, hasRole |-> FALSE, role |-> "", hasOther |-> FALSE]

\* the role: str argument of get_org_permissions and get_project_permissions
RoleArguments == OrgRole \cup ProjectRole \cup {"", "bogus"}

\* what get_org_permissions / get_project_permissions return: a list, taken
\* here as the set of its elements (the order is that of a Python set)
PermissionList(permissions) == [status |-> "ok", permissions |-> permissions]

\* get_org_permissions: OrgRole(role) raising ValueError is caught, and the
\* function then returns []
get_org_permissions(role) ==
    IF role \in OrgRole THEN PermissionList(ORG_PERMISSIONS(role))
    ELSE PermissionList({})

\* get_project_permissions: ProjectRole(role) raising ValueError is caught,
\* and the function then returns []
get_project_permissions(role) ==
    IF role \in ProjectRole THEN PermissionList(PROJECT_PERMISSIONS(role))
    ELSE PermissionList({})

\* the principal of a call that takes none
NoPrincipal ==
    [user_id |-> "u1", email |-> EmailOf("u1"), org_id |-> None,
     org_role |-> None]

\* the arguments of the call under way, before the check has run
RbacCalls ==
    [fn : {"check_project_permission"}, user : TokenDatas,
     membership : Memberships, permission : ProjectPermission, role : {""},
     roles : {{}}, done : {FALSE}, result : {Raised("none", <<>>)}]
    \cup
    [fn : {"check_org_permission"}, user : TokenDatas,
     membership : {NoMembership}, permission : OrgPermission, role : {""},
     roles : {{}}, done : {FALSE}, result : {Raised("none", <<>>)}]
    \cup
    [fn : {"get_org_permissions", "get_project_permissions"},
     user : {NoPrincipal}, membership : {NoMembership}, permission : {""},
     role : RoleArguments, roles : {{}}, done : {FALSE},
     result : {Raised("none", <<>>)}]
    \cup
    [fn : {"check_org_role"}, user : TokenDatas, membership : {NoMembership},
     permission : {""}, role : {""}, roles : SUBSET OrgRole, done : {FALSE},
     result : {Raised("none", <<>>)}]

\* no permission check under way
RbacIdle ==
    rbac = [fn |-> "none",
            user |-> [user_id |-> "u1", email |-> EmailOf("u1"),
                      org_id |-> None, org_role |-> None],
            membership |-> NoMembership, permission |-> "", role |-> "",
            roles |-> {}, done |-> FALSE, result |-> Raised("none", <<>>)]

\* a service calls check_project_permission(user, membership, permission)
CheckProjectPermission ==
    /\ rbac.fn = "check_project_permission"
    /\ ~rbac.done
    /\ rbac' = [rbac EXCEPT
                  !.done = TRUE,
                  !.result = check_project_permission(rbac.user, rbac.membership,
                                                      rbac.permission)]
    /\ UNCHANGED <<authVars, rateVars, gwVars, downstreamVars>>

\* a service calls check_org_permission(user, permission)
CheckOrgPermission ==
    /\ rbac.fn = "check_org_permission"
    /\ ~rbac.done
    /\ rbac' = [rbac EXCEPT
                  !.done = TRUE,
                  !.result = check_org_permission(rbac.user, rbac.permission)]
    /\ UNCHANGED <<authVars, rateVars, gwVars, downstreamVars>>

\* a service calls check_org_role(user, list(roles))
CheckOrgRole ==
    /\ rbac.fn = "check_org_role"
    /\ ~rbac.done
    /\ rbac' = [rbac EXCEPT !.done = TRUE,
                            !.result = check_org_role(rbac.user, rbac.roles)]
    /\ UNCHANGED <<authVars, rateVars, gwVars, downstreamVars>>

\* a service calls get_org_permissions(role)
GetOrgPermissions ==
    /\ rbac.fn = "get_org_permissions"
    /\ ~rbac.done
    /\ rbac' = [rbac EXCEPT !.done = TRUE,
                            !.result = get_org_permissions(rbac.role)]
    /\ UNCHANGED <<authVars, rateVars, gwVars, downstreamVars>>

\* a service calls get_project_permissions(role)
GetProjectPermissions ==
    /\ rbac.fn = "get_project_permissions"
    /\ ~rbac.done
    /\ rbac' = [rbac EXCEPT !.done = TRUE,
                            !.result = get_project_permissions(rbac.role)]
    /\ UNCHANGED <<authVars, rateVars, gwVars, downstreamVars>>

(***************************************************************************)
(* shared/auth/__init__.py and auth_service/app/services : tokens           *)
(*                                                                          *)
(* A token is the record of its claims and of the state of its signature;   *)
(* jwt.encode is injective on the claims, so the record stands for the      *)
(* token string.  jti 0 is "no jti claim"; org_id / org_role None is "no    *)
(* such claim".                                                             *)
(***************************************************************************)
MaxAuthTime == 2

MaxLogins == 1

\* access_expire and refresh_expire, in ticks
AccessTtl == 1

RefreshTtl == 2

NoToken ==
    [type |-> "none", sub |-> "", email |-> <<>>, org_id |-> None,
     org_role |-> None, jti |-> 0, iat |-> 0, exp |-> 0, sig |-> "none"]

\* a string that is no JWT at all
Malformed == [NoToken EXCEPT !.sig = "malformed"]

\* a signed token whose payload or signature was altered afterwards
Tamper(token) == [token EXCEPT !.sig = "bad"]

NoUser == [user_id |-> "", email |-> <<>>, org_id |-> None, org_role |-> None]

\* the org context a login or a registration puts into token_data
OrgContexts ==
    {[org_id |-> None, org_role |-> None],
     [org_id |-> "o1", org_role |-> "org_admin"]}

token_data(sub, ctx) ==
    [sub |-> sub, email |-> EmailOf(sub), org_id |-> ctx.org_id,
     org_role |-> ctx.org_role]

create_access_token(data, expires_delta, t) ==
    [type |-> "access", sub |-> data.sub, email |-> data.email,
     org_id |-> data.org_id, org_role |-> data.org_role, jti |-> 0,
     iat |-> t, exp |-> t + expires_delta, sig |-> "good"]

create_refresh_token(data, expires_delta, t, jti) ==
    [type |-> "refresh", sub |-> data.sub, email |-> data.email,
     org_id |-> data.org_id, org_role |-> data.org_role, jti |-> jti,
     iat |-> t, exp |-> t + expires_delta, sig |-> "good"]

\* jwt.decode: the signature verifies and exp is not in the past
Decodes(token, t) == token.sig = "good" /\ t <= token.exp

\* verify_token: the payload, or HTTPException(401)
verify_token(token, t) ==
    IF Decodes(token, t)
    THEN [status |-> "ok", payload |-> token]
    ELSE [status |-> "401", payload |-> NoToken]

(***************************************************************************)
(* The key-value store.  The text of a key is either the text of a uuid     *)
(* (a jti) or the text of a token; the two never coincide.                  *)
(***************************************************************************)
JtiText(jti) == [kind |-> "uuid", jti |-> jti, token |-> NoToken]

TokenText(token) == [kind |-> "jwt", jti |-> 0, token |-> token]

\* f"blacklist:{text}"
BlacklistKey(text) == [prefix |-> "blacklist:", text |-> text]

\* redis.get(key): the key is there and has not expired
Get(store, key, t) == \E e \in store : e.key = key /\ t < e.expires_at

\* redis.setex(key, ttl, "1")
Setex(store, key, ttl, t) ==
    {e \in store : e.key # key} \cup {[key |-> key, expires_at |-> t + ttl]}

AuthResult(status, detail, minted) ==
    [status |-> status, detail |-> detail, minted |-> minted]

\* AuthService.refresh_token without the test of the type claim
refresh_token_NoTypeCheck(token, store, t) ==
    IF Get(store, BlacklistKey(TokenText(token)), t)
    THEN AuthResult("401", "Token has been revoked", NoToken)
    ELSE IF verify_token(token, t).status # "ok"
    THEN AuthResult("401", "Invalid token", NoToken)
    ELSE AuthResult("200", "",
            create_access_token(
                [sub |-> token.sub, email |-> token.email,
                 org_id |-> token.org_id, org_role |-> token.org_role],
                AccessTtl, t))

\* AuthService.refresh_token
refresh_token(token, store, t) ==
    IF Get(store, BlacklistKey(TokenText(token)), t)
    THEN AuthResult("401", "Token has been revoked", NoToken)
    ELSE IF verify_token(token, t).status # "ok"
    THEN AuthResult("401", "Invalid token", NoToken)
    ELSE IF verify_token(token, t).payload.type # "refresh"
    THEN AuthResult("401", "Invalid token type", NoToken)
    ELSE AuthResult("200", "",
            create_access_token(
                [sub |-> token.sub, email |-> token.email,
                 org_id |-> token.org_id, org_role |-> token.org_role],
                AccessTtl, t))

\* AuthService.logout with a ttl one tick short of refresh_expire
logout_ShorterTtl(token, store, t) ==
    IF verify_token(token, t).status # "ok"
    THEN [status |-> "401", store |-> store]
    ELSE LET payload == verify_token(token, t).payload
             jti == IF payload.jti # 0 THEN JtiText(payload.jti)
                    ELSE TokenText(token)
         IN  [status |-> "200",
              store |-> Setex(store, BlacklistKey(jti), RefreshTtl - 1, t)]

\* AuthService.logout: the status and the store it leaves
logout(token, store, t) ==
    IF verify_token(token, t).status # "ok"
    THEN [status |-> "401", store |-> store]
    ELSE LET payload == verify_token(token, t).payload
             jti == IF payload.jti # 0 THEN JtiText(payload.jti)
                    ELSE TokenText(token)
         IN  [status |-> "200",
              store |-> Setex(store, BlacklistKey(jti), RefreshTtl, t)]

\* the X-Org-Id header of a request to a service: absent, or an org id
OrgHeaders == {None, "o2"}

\* get_current_user reading the X-Org-Id header before the token's claim
get_current_user_HeaderFirst(token, x_org_id, t) ==
    IF verify_token(token, t).status # "ok"
    THEN [status |-> "401", detail |-> "Invalid token", user |-> NoUser]
    ELSE IF verify_token(token, t).payload.type # "access"
    THEN [status |-> "401", detail |-> "Invalid token type", user |-> NoUser]
    ELSE [status |-> "200", detail |-> "",
          user |-> [user_id |-> token.sub, email |-> token.email,
                    org_id |-> IF x_org_id # None THEN x_org_id
                               ELSE token.org_id,
                    org_role |-> token.org_role]]

\* the dependency get_current_user returns: a TokenData, or HTTPException(401)
get_current_user(token, x_org_id, t) ==
    IF verify_token(token, t).status # "ok"
    THEN [status |-> "401", detail |-> "Invalid token", user |-> NoUser]
    ELSE IF verify_token(token, t).payload.type # "access"
    THEN [status |-> "401", detail |-> "Invalid token type", user |-> NoUser]
    ELSE [status |-> "200", detail |-> "",
          user |-> [user_id |-> token.sub, email |-> token.email,
                    org_id |-> IF token.org_id # None THEN token.org_id
                               ELSE x_org_id,
                    org_role |-> token.org_role]]

\* what a client can present: a token of a pair it was given, an altered
\* one, garbage
FromLogin == issued \cup {Tamper(tk) : tk \in issued} \cup {Malformed}

\* and the access token its last refresh returned
Presentable ==
    FromLogin \cup (IF auth.op = "refresh" /\ auth.status = "200"
                    THEN {auth.minted} ELSE {})

AuthOp(op, token, header, status, detail, minted, refresh, user) ==
    [op |-> op, token |-> token, header |-> header, at |-> now,
     status |-> status, detail |-> detail, minted |-> minted,
     refresh |-> refresh, user |-> user, store |-> "up"]

NoAuthOp ==
    [op |-> "none", token |-> NoToken, header |-> None, at |-> 0,
     status |-> "", detail |-> "", minted |-> NoToken,
     refresh |-> NoToken, user |-> NoUser, store |-> "up"]

\* no token operation has run
AuthIdle ==
    /\ orgOf = [u \in UserIds |-> [org_id |-> None, org_role |-> None]]
    /\ issued = {}
    /\ nextJti = 1
    /\ redis = {}
    /\ loggedOut = {}
    /\ auth = NoAuthOp

\* AuthService.login / register, from the password check on: _create_tokens
Login ==
    /\ nextJti <= MaxLogins
    /\ \E sub \in UserIds :
        LET data == token_data(sub, orgOf[sub])
            access == create_access_token(data, AccessTtl, now)
            refresh == create_refresh_token(data, RefreshTtl, now, nextJti)
        IN  /\ issued' = issued \cup {access, refresh}
            /\ auth' = AuthOp("login", NoToken, None, "200", "", access,
                              refresh, NoUser)
    /\ nextJti' = nextJti + 1
    /\ UNCHANGED <<now, orgOf, redis, loggedOut, rbacVars, rateVars, gwVars, downstreamVars>>

\* POST /refresh
Refresh ==
    /\ \E token \in Presentable :
        LET r == refresh_token(token, redis, now)
        IN  auth' = AuthOp("refresh", token, None, r.status, r.detail,
                           r.minted, NoToken, NoUser)
    /\ UNCHANGED <<now, orgOf, issued, nextJti, redis, loggedOut, rbacVars, rateVars, gwVars, downstreamVars>>

\* POST /refresh while the store cannot be reached: self.redis.get raises
\* redis ConnectionError, which refresh_token does not catch
RefreshStoreDown ==
    /\ \E token \in issued :
        auth' = [AuthOp("refresh", token, None, "ConnectionError",
                        "Error connecting to redis", NoToken, NoToken, NoUser)
                 EXCEPT !.store = "down"]
    /\ UNCHANGED <<now, orgOf, issued, nextJti, redis, loggedOut, rbacVars, rateVars, gwVars, downstreamVars>>

\* POST /logout
Logout ==
    /\ \E token \in FromLogin :
        LET r == logout(token, redis, now)
        IN  /\ auth' = AuthOp("logout", token, None, r.status, "", NoToken,
                              NoToken, NoUser)
            /\ redis' = r.store
            /\ loggedOut' = IF r.status = "200" /\ token.type = "refresh"
                            THEN loggedOut \cup {token}
                            ELSE loggedOut
    /\ UNCHANGED <<now, orgOf, issued, nextJti, rbacVars, rateVars, gwVars, downstreamVars>>

\* a request that depends on get_current_user
GetCurrentUser ==
    /\ \E token \in Presentable, header \in OrgHeaders :
        LET r == get_current_user(token, header, now)
        IN  auth' = AuthOp("get_current_user", token, header, r.status,
                           r.detail, NoToken, NoToken, r.user)
    /\ UNCHANGED <<now, orgOf, issued, nextJti, redis, loggedOut, rbacVars, rateVars, gwVars, downstreamVars>>

\* time passes; the store drops the keys whose ttl has run out
TickAuth ==
    /\ now < MaxAuthTime
    /\ now' = now + 1
    /\ redis' = {e \in redis : now' < e.expires_at}
    /\ UNCHANGED <<orgOf, issued, nextJti, auth, loggedOut, rbacVars, rateVars, gwVars, downstreamVars>>

(***************************************************************************)
(* api_gateway/app/main.py : check_rate_limit                               *)
(*                                                                          *)
(* One client identity (request.client.host) and so one key.  A request     *)
(* reads the clock and queues its four commands without yielding; the       *)
(* pipeline (MULTI/EXEC) then runs them as one step on the store.           *)
(***************************************************************************)
MaxRequests == 3

MaxRateTime == 120

\* the clock advances by one of these
TickSteps == {59, 60}

\* settings.rate_limit_per_minute
RateLimitPerMinute == 1

Window == 60

KeyTtl == 120

\* id(request): the addresses a Request object can have
ObjectIds == {8, 16, 1008}

\* str(now * 1000 + id(request) % 1000): equal texts iff equal numbers
Member(t, id) == (t * 1000) + (id % 1000)

\* the key as the store sees it at time t: gone once its ttl has run out
Live(set, expiry, t) == IF expiry # 0 /\ expiry <= t THEN {} ELSE set

\* zremrangebyscore that spares the entries at exactly window_start
zremrangebyscore_Exclusive(set, lo, hi) ==
    {e \in set : ~(lo <= e.score /\ e.score < hi)}

\* pipe.zremrangebyscore(key, 0, window_start)
zremrangebyscore(set, lo, hi) == {e \in set : ~(lo <= e.score /\ e.score <= hi)}

\* pipe.zadd(key, {member: score}): a member already there gets the new score
zadd(set, member, score) ==
    {e \in set : e.member # member} \cup {[member |-> member, score |-> score]}

\* pipe.zcard(key)
zcard(set) == Cardinality(set)

\* the transaction of check_rate_limit for a request that read the clock at
\* t and has address id, executed when the store's clock shows at
Pipeline(set, expiry, t, id, at) ==
    LET live == Live(set, expiry, at)
        evicted == zremrangebyscore(live, 0, t - Window)
        added == zadd(evicted, Member(t, id), t)
    IN  [zset |-> added, count |-> zcard(added), expiry |-> at + KeyTtl]

\* count > settings.rate_limit_per_minute raises HTTPException(429)
Over(count) == count > RateLimitPerMinute

NewRequest(id, pc) ==
    [id |-> id, now |-> now, pc |-> pc, count |-> 0, at |-> now,
     status |-> "", retry_after |-> ""]

Pending == {i \in 1..Len(reqs) : reqs[i].pc = "pending"}

RateIdle ==
    /\ rateClient = "connected"
    /\ zset = {}
    /\ keyExpiry = 0
    /\ reqs = <<>>
    /\ execOrder = <<>>

\* a request enters check_rate_limit: with no client it returns at once,
\* otherwise it reads the clock, builds the pipeline and awaits execute()
Arrive ==
    /\ Len(reqs) < MaxRequests
    /\ \E id \in ObjectIds :
        /\ \A i \in Pending : reqs[i].id # id
        /\ reqs' = Append(reqs,
                NewRequest(id, IF rateClient = "none" THEN "admitted"
                               ELSE "pending"))
    /\ UNCHANGED <<now, rateClient, zset, keyExpiry, execOrder>>
    /\ UNCHANGED <<rbacVars, orgOf, issued, nextJti, redis, auth, loggedOut, gwVars, downstreamVars>>

\* the store runs the request's transaction; the request compares the count
Execute ==
    /\ \E i \in Pending :
        LET r == Pipeline(zset, keyExpiry, reqs[i].now, reqs[i].id, now)
        IN  /\ zset' = r.zset
            /\ keyExpiry' = r.expiry
            /\ reqs' = [reqs EXCEPT ![i] =
                    [@ EXCEPT !.count = r.count, !.at = now,
                        !.pc = IF Over(r.count) THEN "denied" ELSE "admitted",
                        !.status = IF Over(r.count) THEN "429" ELSE "",
                        !.retry_after = IF Over(r.count) THEN "60" ELSE ""]]
            /\ execOrder' = Append(execOrder, i)
    /\ UNCHANGED <<now, rateClient>>
    /\ UNCHANGED <<rbacVars, orgOf, issued, nextJti, redis, auth, loggedOut, gwVars, downstreamVars>>

\* the store cannot be reached: execute() raises and the request fails
ExecuteFails ==
    /\ \E i \in Pending :
        reqs' = [reqs EXCEPT ![i] = [@ EXCEPT !.pc = "error", !.at = now,
                                                !.status = "500"]]
    /\ UNCHANGED <<now, rateClient, zset, keyExpiry, execOrder>>
    /\ UNCHANGED <<rbacVars, orgOf, issued, nextJti, redis, auth, loggedOut, gwVars, downstreamVars>>

\* time passes
TickRate ==
    /\ \E d \in TickSteps :
        /\ now + d <= MaxRateTime
        /\ now' = now + d
    /\ UNCHANGED <<rateVars, rbacVars, orgOf, issued, nextJti, redis, auth,
                   loggedOut, gwVars, downstreamVars>>

(***************************************************************************)
(* api_gateway/app/main.py : the proxy handler                              *)
(*                                                                          *)
(* A path is the sequence of the pieces of its text, so that one text is a  *)
(* prefix of another exactly when its sequence is.  Request headers are a   *)
(* dict: a set of (name, value) pairs with distinct names, the names of the *)
(* incoming request in lower case.  A header value is a text and, for an    *)
(* Authorization header, the token that follows the first space.  A request *)
(* may repeat a name on a later line; request.headers as a mapping gives    *)
(* the first value of each name, and the later lines are kept apart.        *)
(***************************************************************************)
StartsWith(text, prefix) ==
    Len(prefix) <= Len(text) /\ SubSeq(text, 1, Len(prefix)) = prefix

ROUTE_MAP ==
    << [prefix |-> <<"/api/v1", "/auth">>, attr |-> "auth_service_url"],
       [prefix |-> <<"/api/v1", "/organizations">>, attr |-> "org_service_url"],
       [prefix |-> <<"/api/v1", "/projects">>, attr |-> "project_service_url"],
       [prefix |-> <<"/api/v1", "/tasks">>, attr |-> "task_service_url"],
       [prefix |-> <<"/api/v1", "/notifications">>,
        attr |-> "notification_service_url"],
       [prefix |-> <<"/api/v1", "/files">>, attr |-> "file_service_url"] >>

PUBLIC_PATHS ==
    { <<"/api/v1", "/auth", "/register">>,
      <<"/api/v1", "/auth", "/login">>,
      <<"/api/v1", "/auth", "/refresh">>,
      <<"/health">> }

\* getattr(settings, attr)
GatewaySettings(attr) ==
    CASE attr = "auth_service_url" -> "http://auth_service:8001"
      [] attr = "org_service_url" -> "http://org_service:8002"
      [] attr = "project_service_url" -> "http://project_service:8003"
      [] attr = "task_service_url" -> "http://task_service:8004"
      [] attr = "notification_service_url" -> "http://notification_service:8005"
      [] attr = "file_service_url" -> "http://file_service:8006"

\* the paths f"/api/v1/{path}" of the requests
FullPaths ==
    { <<"/api/v1", "/auth", "/login">>,
      <<"/api/v1", "/auth", "/login", "-extra">>,
      <<"/api/v1", "/auth", "/me">>,
      <<"/api/v1", "/auth", "x">>,
      <<"/api/v1", "/tasks", "/123">>,
      <<"/api/v1", "/organizations", "/o1">>,
      <<"/api/v1", "/reports">> }

NoRoute == [found |-> FALSE, base_url |-> "", downstream_path |-> <<>>]

\* resolve_service_url that forwards the path with /api/v1 still on it
resolve_service_url_KeepPrefix(path) ==
    LET hits == {i \in 1..Len(ROUTE_MAP) : StartsWith(path, ROUTE_MAP[i].prefix)}
    IN  IF hits = {} THEN NoRoute
        ELSE LET first == CHOOSE i \in hits : \A j \in hits : i <= j
             IN  [found |-> TRUE,
                  base_url |-> GatewaySettings(ROUTE_MAP[first].attr),
                  downstream_path |-> path]

\* the first entry of ROUTE_MAP whose prefix the path starts with
resolve_service_url(path) ==
    LET hits == {i \in 1..Len(ROUTE_MAP) : StartsWith(path, ROUTE_MAP[i].prefix)}
    IN  IF hits = {} THEN NoRoute
        ELSE LET first == CHOOSE i \in hits : \A j \in hits : i <= j
             IN  [found |-> TRUE,
                  base_url |-> GatewaySettings(ROUTE_MAP[first].attr),
                  downstream_path |-> SubSeq(path, 2, Len(path))]

\* is_public = any(full_path.startswith(p) for p in PUBLIC_PATHS)
is_public(full_path) == \E p \in PUBLIC_PATHS : StartsWith(full_path, p)

Header(name, text, token) == [name |-> name, text |-> text, token |-> token]

\* the tokens a client of the gateway may hold: access tokens with and
\* without org context, a refresh token, an access token that has expired
GatewayTokens ==
    LET admin == token_data("u1", [org_id |-> "o1", org_role |-> "org_admin"])
        plain == token_data("u1", [org_id |-> None, org_role |-> None])
    IN  { create_access_token(admin, 30 * 60, 0),
          create_access_token(plain, 30 * 60, 0),
          create_access_token(admin, 30 * 60, 0 - 30 * 60 - 1),
          create_refresh_token(admin, 7 * 24 * 60 * 60, 0, 1) }

\* the Authorization headers: well formed, altered, garbage, wrong scheme,
\* wrong case of the scheme, no space, empty
AuthorizationHeaders ==
    {Header("authorization", "Bearer ", tk) : tk \in GatewayTokens}
    \cup {Header("authorization", "Bearer ", Tamper(tk)) :
            tk \in {x \in GatewayTokens : x.org_id = None}}
    \cup {Header("authorization", "Bearer ", Malformed),
          Header("authorization", "Basic ", Malformed),
          Header("authorization", "Bearer", NoToken),
          Header("authorization", "", NoToken)}
    \cup {Header("authorization", "bearer ", tk) :
            tk \in {x \in GatewayTokens : x.org_id = None}}

\* identity headers a client may add on its own
ClientIdentityHeaders ==
    {Header("x-org-id", "o2", NoToken), Header("x-user-id", "u2", NoToken)}

\* the headers of an incoming request
RequestHeaders ==
    {{Header("host", "gateway", NoToken)} \cup a :
        a \in {{}} \cup {{h} : h \in AuthorizationHeaders}}
    \cup
    {{Header("host", "gateway", NoToken)} \cup a \cup ClientIdentityHeaders :
        a \in {{}} \cup {{Header("authorization", "Bearer ", tk)} :
                            tk \in {x \in GatewayTokens : x.exp > 0}}}
    \cup
    {{Header("host", "gateway", NoToken), Header("accept", "text/html", NoToken)}
        \cup a :
        a \in {{}} \cup {{Header("authorization", "Bearer ", tk)} :
                            tk \in {x \in GatewayTokens :
                                        x.type = "access" /\ x.org_id = None}}}

\* the later lines of a request that repeat the name of an earlier line
RepeatedLines(headers) ==
    IF \E h \in headers : h.name = "accept"
    THEN {{}, {Header("accept", "application/json", NoToken)}}
    ELSE {{}}

\* headers.get(name): the value, or None
HasHeader(headers, name) == \E h \in headers : h.name = name

GetHeader(headers, name) == CHOOSE h \in headers : h.name = name

\* headers[name] = text
SetHeader(headers, name, text) ==
    {h \in headers : h.name # name} \cup {Header(name, text, NoToken)}

\* headers.pop(name, None)
PopHeader(headers, name) == {h \in headers : h.name # name}

\* the gateway's verify_token(token, settings.public_key, algorithm)
gateway_verify(token, key, t) ==
    IF key = "pem" THEN verify_token(token, t)
    ELSE [status |-> "401", payload |-> NoToken]

\* the authentication block of proxy that forwards whatever follows "Bearer "
authenticate_NoVerify(headers, key, t) ==
    IF ~HasHeader(headers, "authorization")
    THEN [status |-> "401",
          detail |-> "Missing or invalid authorization header",
          user_claims |-> NoToken]
    ELSE IF GetHeader(headers, "authorization").text # "Bearer "
    THEN [status |-> "401",
          detail |-> "Missing or invalid authorization header",
          user_claims |-> NoToken]
    ELSE [status |-> "ok", detail |-> "",
          user_claims |-> GetHeader(headers, "authorization").token]

\* the authentication block of proxy letting a request with no Authorization
\* header through, without claims
authenticate_AnonymousPasses(headers, key, t) ==
    IF ~HasHeader(headers, "authorization")
    THEN [status |-> "ok", detail |-> "", user_claims |-> NoToken]
    ELSE IF GetHeader(headers, "authorization").text # "Bearer "
    THEN [status |-> "401",
          detail |-> "Missing or invalid authorization header",
          user_claims |-> NoToken]
    ELSE LET token == GetHeader(headers, "authorization").token
             v == gateway_verify(token, key, t)
         IN  IF v.status = "ok"
             THEN [status |-> "ok", detail |-> "", user_claims |-> v.payload]
             ELSE [status |-> "401", detail |-> "Invalid token",
                   user_claims |-> NoToken]

\* the authentication block of proxy for a path that is not public
authenticate(headers, key, t) ==
    IF ~HasHeader(headers, "authorization")
    THEN [status |-> "401",
          detail |-> "Missing or invalid authorization header",
          user_claims |-> NoToken]
    ELSE IF GetHeader(headers, "authorization").text # "Bearer "
    THEN [status |-> "401",
          detail |-> "Missing or invalid authorization header",
          user_claims |-> NoToken]
    ELSE LET token == GetHeader(headers, "authorization").token
             v == gateway_verify(token, key, t)
         IN  IF v.status = "ok"
             THEN [status |-> "ok", detail |-> "", user_claims |-> v.payload]
             ELSE [status |-> "401", detail |-> "Invalid token",
                   user_claims |-> NoToken]

\* the headers to forward: the request's without host, plus the org context
forward_headers(headers, user_claims) ==
    LET base == PopHeader(headers, "host")
        org == IF user_claims.org_id # None
               THEN SetHeader(base, "X-Org-Id", user_claims.org_id) ELSE base
    IN  IF user_claims.sub # ""
        THEN SetHeader(org, "X-User-Id", user_claims.sub) ELSE org

\* request.method and request.url.query
RequestLines ==
    {[method |-> "GET", query |-> "page=2"], [method |-> "POST", query |-> ""]}

\* request.body()
BodyOf(method) == IF method = "POST" THEN "{...}" ELSE ""

NoCall ==
    [method |-> "", base_url |-> "", path |-> <<>>, query |-> "",
     headers |-> {}, content |-> ""]

NoResponse == [status |-> "", detail |-> "", headers |-> {}, content |-> ""]

\* raise HTTPException(status, detail)
HttpError(status, detail) ==
    [status |-> status, detail |-> detail, headers |-> {}, content |-> ""]

\* what the backend call can come to: an answer, or an exception of httpx
BackendOutcomes ==
    {[kind |-> "response", status |-> st, content |-> "body",
      headers |-> {Header("content-type", "application/json", NoToken)}] :
        st \in {"200", "404"}}
    \cup {[kind |-> k, status |-> "", content |-> "", headers |-> {}] :
            k \in {"ConnectError", "TimeoutException", "ReadError"}}

\* no backend call has been made
NoOutcome == [kind |-> "none", status |-> "", content |-> "", headers |-> {}]

\* the except clauses around _http_client.request, and the relay
backend_result(outcome) ==
    CASE outcome.kind = "response" ->
            [status |-> outcome.status, detail |-> "",
             headers |-> outcome.headers, content |-> outcome.content]
      [] outcome.kind = "ConnectError" -> HttpError("503", "Service unavailable")
      [] outcome.kind = "TimeoutException" -> HttpError("504", "Service timeout")
      [] OTHER -> HttpError("500", outcome.kind)

GwIdleRequest ==
    [pc |-> "idle", id |-> 0, now |-> 0, path |-> <<>>, method |-> "",
     query |-> "", headers |-> {}, repeats |-> {}, count |-> 0, auth_at |-> 0,
     user_claims |-> NoToken, route |-> NoRoute, sent |-> FALSE,
     call |-> NoCall, outcome |-> NoOutcome, response |-> NoResponse]

GwIdle == publicKey = "pem" /\ gw = GwIdleRequest

othersOfGw ==
    <<rbacVars, orgOf, issued, nextJti, redis, auth, loggedOut, reqs, execOrder,
      downstreamVars>>

\* a request reaches proxy, which enters check_rate_limit and reads the clock
GwReceive ==
    /\ gw.pc = "idle"
    /\ \E path \in FullPaths, line \in RequestLines,
          headers \in RequestHeaders, id \in ObjectIds :
        \E repeats \in RepeatedLines(headers) :
            gw' = [GwIdleRequest EXCEPT
                      !.pc = "rate_limit", !.id = id, !.now = now,
                      !.path = path, !.method = line.method,
                      !.query = line.query, !.headers = headers,
                      !.repeats = repeats]
    /\ UNCHANGED <<now, rateClient, zset, keyExpiry, publicKey, othersOfGw>>

\* check_rate_limit: no client, or the transaction and the comparison
GwRateLimit ==
    /\ gw.pc = "rate_limit"
    /\ IF rateClient = "none"
       THEN /\ gw' = [gw EXCEPT !.pc = "auth"]
            /\ UNCHANGED <<zset, keyExpiry>>
       ELSE LET r == Pipeline(zset, keyExpiry, gw.now, gw.id, now)
            IN  /\ zset' = r.zset
                /\ keyExpiry' = r.expiry
                /\ gw' = IF Over(r.count)
                         THEN [gw EXCEPT
                                  !.pc = "done", !.count = r.count,
                                  !.response =
                                      [HttpError("429", "Rate limit exceeded")
                                       EXCEPT !.headers =
                                          {Header("Retry-After", "60", NoToken)}]]
                         ELSE [gw EXCEPT !.pc = "auth", !.count = r.count]
    /\ UNCHANGED <<now, rateClient, publicKey, othersOfGw>>

\* check_rate_limit: the store cannot be reached and execute() raises
GwRateLimitFails ==
    /\ gw.pc = "rate_limit"
    /\ rateClient = "connected"
    /\ gw' = [gw EXCEPT !.pc = "done",
                        !.response = HttpError("500", "ConnectionError")]
    /\ UNCHANGED <<now, rateClient, zset, keyExpiry, publicKey, othersOfGw>>

\* proxy: authenticate if not a public route
GwAuthenticate ==
    /\ gw.pc = "auth"
    /\ IF is_public(gw.path)
       THEN gw' = [gw EXCEPT !.pc = "route", !.auth_at = now]
       ELSE LET a == authenticate(gw.headers, publicKey, now)
            IN  gw' = IF a.status = "ok"
                      THEN [gw EXCEPT !.pc = "route", !.auth_at = now,
                                      !.user_claims = a.user_claims]
                      ELSE [gw EXCEPT !.pc = "done", !.auth_at = now,
                                      !.response = HttpError("401", a.detail)]
    /\ UNCHANGED <<now, rateClient, zset, keyExpiry, publicKey, othersOfGw>>

\* proxy: resolve the destination, build the url and the headers
GwRoute ==
    /\ gw.pc = "route"
    /\ LET route == resolve_service_url(gw.path)
       IN  gw' = IF ~route.found
                 THEN [gw EXCEPT !.pc = "done", !.route = route,
                          !.response =
                              HttpError("404", "Service not found for this path")]
                 ELSE [gw EXCEPT !.pc = "forward", !.route = route,
                          !.call =
                              [method |-> gw.method,
                               base_url |-> route.base_url,
                               path |-> route.downstream_path,
                               query |-> gw.query,
                               headers |-> forward_headers(gw.headers,
                                                           gw.user_claims),
                               content |-> BodyOf(gw.method)]]
    /\ UNCHANGED <<now, rateClient, zset, keyExpiry, publicKey, othersOfGw>>

\* proxy: _http_client.request(...) and what comes of it
GwForward ==
    /\ gw.pc = "forward"
    /\ \E outcome \in BackendOutcomes :
        gw' = [gw EXCEPT !.pc = "done", !.sent = TRUE, !.outcome = outcome,
                         !.response = backend_result(outcome)]
    /\ UNCHANGED <<now, rateClient, zset, keyExpiry, publicKey, othersOfGw>>

\* the response has gone to the client and the request object is freed
GwRespond ==
    /\ gw.pc = "done"
    /\ gw' = GwIdleRequest
    /\ UNCHANGED <<now, rateClient, zset, keyExpiry, publicKey, othersOfGw>>

\* time passes
GwTick ==
    /\ \E d \in {Window - 1} :
        /\ now + d <= MaxRateTime
        /\ now' = now + d
    /\ UNCHANGED <<rateClient, zset, keyExpiry, publicKey, gw, othersOfGw>>

(***************************************************************************)
(* api_gateway/app/main.py : services_health                                *)
(*                                                                          *)
(* The handler walks ROUTE_MAP in order and asks each backend for /health   *)
(* with a timeout of five seconds.  results is a dict: a set of entries     *)
(* with distinct names.                                                     *)
(***************************************************************************)
\* attr.replace("_url", "")
service_name(attr) ==
    CASE attr = "auth_service_url" -> "auth_service"
      [] attr = "org_service_url" -> "org_service"
      [] attr = "project_service_url" -> "project_service"
      [] attr = "task_service_url" -> "task_service"
      [] attr = "notification_service_url" -> "notification_service"
      [] attr = "file_service_url" -> "file_service"

\* what _http_client.get(f"{base_url}/health", timeout=5.0) can come to: an
\* answer, or an exception (no connection, no answer in time, a broken read)
ProbeOutcomes ==
    {[kind |-> "response", status |-> "200"],
     [kind |-> "response", status |-> "503"],
     [kind |-> "ConnectError", status |-> ""],
     [kind |-> "TimeoutException", status |-> ""],
     [kind |-> "ReadError", status |-> ""]}

\* the body of the loop with a timeout reported like a bad answer
probe_entry_TimeoutDegraded(outcome) ==
    IF outcome.kind = "response"
    THEN [status |-> IF outcome.status = "200" THEN "healthy" ELSE "degraded"]
    ELSE IF outcome.kind = "TimeoutException"
    THEN [status |-> "degraded"]
    ELSE [status |-> "unreachable"]

\* the body of the loop: the entry written for one backend
probe_entry(outcome) ==
    IF outcome.kind = "response"
    THEN [status |-> IF outcome.status = "200" THEN "healthy" ELSE "degraded"]
    ELSE [status |-> "unreachable"]

\* results[service_name] = entry
PutResult(results, name, entry) ==
    {e \in results : e.name # name}
        \cup {[name |-> name, status |-> entry.status]}

HealthIdleRun ==
    [pc |-> "idle", i |-> 0, probed |-> <<>>, results |-> {}, response |-> ""]

\* GET /health/services arrives: results = {}
HealthStart ==
    /\ health.pc = "idle"
    /\ health' = [HealthIdleRun EXCEPT !.pc = "loop", !.i = 1]
    /\ UNCHANGED <<rbacVars, authVars, rateVars, gwVars, svc, memberships, txns>>

\* one turn of the loop over ROUTE_MAP
HealthProbe ==
    /\ health.pc = "loop"
    /\ health.i <= Len(ROUTE_MAP)
    /\ \E outcome \in ProbeOutcomes :
        health' = [health EXCEPT
                      !.i = @ + 1,
                      !.probed = Append(@, outcome),
                      !.results = PutResult(@,
                                      service_name(ROUTE_MAP[health.i].attr),
                                      probe_entry(outcome))]
    /\ UNCHANGED <<rbacVars, authVars, rateVars, gwVars, svc, memberships, txns>>

\* return {"services": results}
HealthReturn ==
    /\ health.pc = "loop"
    /\ health.i > Len(ROUTE_MAP)
    /\ health' = [health EXCEPT !.pc = "returned", !.response = "200"]
    /\ UNCHANGED <<rbacVars, authVars, rateVars, gwVars, svc, memberships, txns>>

(***************************************************************************)
(* org_service, task_service, project_service : the route handlers          *)
(*                                                                          *)
(* A handler gets the principal current_user, for some routes a project     *)
(* membership, and answers with a status.  The answer records which         *)
(* permission checks returned normally (checks), which method of the        *)
(* service class was entered (logic), the org_id it was given (org_arg)     *)
(* and whether it wrote to the database (mutated).  present says whether    *)
(* the row the request names exists.  An exception that is no HTTPException *)
(* leaves the handler as status 500.                                        *)
(***************************************************************************)
NoAnswer ==
    [status |-> "", detail |-> <<>>, checks |-> {}, logic |-> "",
     org_arg |-> None, mutated |-> FALSE, perm |-> Raised("none", <<>>)]

\* the handler, or one of its dependencies, answered without entering the
\* service class
Direct(status, detail, checks) ==
    [NoAnswer EXCEPT !.status = status, !.detail = detail, !.checks = checks]

\* what a method of a service class comes to
Outcome(status, detail, mutated) ==
    [status |-> status, detail |-> detail, mutated |-> mutated]

\* the handler entered the service class
Ran(logic, org_arg, checks, outcome) ==
    [NoAnswer EXCEPT !.status = outcome.status, !.detail = outcome.detail,
                     !.checks = checks, !.logic = logic, !.org_arg = org_arg,
                     !.mutated = outcome.mutated]

\* not value, for an Optional[str]
Falsy(value) == value \in {None, ""}

\* uuid.UUID(text) raises ValueError unless the text is that of a uuid
IsUuidText(text) == text \notin {None, ""}

\* the status of a response whose handler raised: HTTPException keeps its
\* own, anything else is 500
HttpStatus(result) == IF result.status = "403" THEN "403" ELSE "500"

\* the org_id of the path /organizations/{org_id}/...
PathOrgId == "o1"

\* OrgService
OrgService_update_org(present) ==
    IF ~present THEN Outcome("404", <<"Organization not found">>, FALSE)
    ELSE Outcome("200", <<>>, TRUE)

OrgService_add_member(present) ==
    IF present THEN Outcome("409", <<"User already a member">>, FALSE)
    ELSE Outcome("201", <<>>, TRUE)

OrgService_remove_member(present) ==
    IF ~present THEN Outcome("404", <<"Member not found">>, FALSE)
    ELSE Outcome("204", <<>>, TRUE)

OrgService_change_member_role(present) ==
    IF ~present THEN Outcome("404", <<"Member not found">>, FALSE)
    ELSE Outcome("200", <<>>, TRUE)

OrgService_create_team == Outcome("201", <<>>, TRUE)

OrgService_add_team_member(present) ==
    IF present THEN Outcome("409", <<"User already in team">>, FALSE)
    ELSE Outcome("201", <<>>, TRUE)

OrgService_remove_team_member(present) ==
    IF ~present THEN Outcome("404", <<"Team member not found">>, FALSE)
    ELSE Outcome("204", <<>>, TRUE)

\* TaskService: the methods that take org_id: str build uuid.UUID(org_id)
TaskService_create_task(org_id) ==
    IF ~IsUuidText(org_id) THEN Outcome("500", <<"ValueError">>, FALSE)
    ELSE Outcome("201", <<>>, TRUE)

TaskService_list_tasks(org_id) ==
    IF ~IsUuidText(org_id) THEN Outcome("500", <<"ValueError">>, FALSE)
    ELSE Outcome("200", <<>>, FALSE)

\* get_task does not use its org_id
TaskService_get_task(present) ==
    IF ~present THEN Outcome("404", <<"Task not found">>, FALSE)
    ELSE Outcome("200", <<>>, FALSE)

TaskService_update_task(org_id, present) ==
    IF ~IsUuidText(org_id) THEN Outcome("500", <<"ValueError">>, FALSE)
    ELSE IF ~present THEN Outcome("404", <<"Task not found">>, FALSE)
    ELSE Outcome("200", <<>>, TRUE)

TaskService_delete_task(org_id, present) ==
    IF ~IsUuidText(org_id) THEN Outcome("500", <<"ValueError">>, FALSE)
    ELSE IF ~present THEN Outcome("404", <<"Task not found">>, FALSE)
    ELSE Outcome("204", <<>>, TRUE)

\* ProjectService
ProjectService_create_project(org_id) ==
    IF ~IsUuidText(org_id) THEN Outcome("500", <<"ValueError">>, FALSE)
    ELSE Outcome("201", <<>>, TRUE)

ProjectService_list_user_projects(org_id) ==
    IF ~IsUuidText(org_id) THEN Outcome("500", <<"ValueError">>, FALSE)
    ELSE Outcome("200", <<>>, FALSE)

ProjectService_list_projects(org_id) ==
    IF ~IsUuidText(org_id) THEN Outcome("500", <<"ValueError">>, FALSE)
    ELSE Outcome("200", <<>>, FALSE)

ProjectService_update_project(org_id, present) ==
    IF ~IsUuidText(org_id) THEN Outcome("500", <<"ValueError">>, FALSE)
    ELSE IF ~present THEN Outcome("404", <<"Project not found">>, FALSE)
    ELSE Outcome("200", <<>>, TRUE)

ProjectService_delete_project(org_id, present) ==
    IF ~IsUuidText(org_id) THEN Outcome("500", <<"ValueError">>, FALSE)
    ELSE IF ~present THEN Outcome("404", <<"Project not found">>, FALSE)
    ELSE Outcome("204", <<>>, TRUE)

\* what the task service's call of /projects/{id}/check-membership can come
\* to: 200 with a json body, another status, or an exception
NoLookup == [kind |-> "none", status |-> "", body |-> NoMembership]

Lookups ==
    {[kind |-> "response", status |-> "200", body |-> m] : m \in Memberships}
    \cup {[kind |-> "response", status |-> st, body |-> NoMembership] :
            st \in {"404", "500"}}
    \cup {[kind |-> k, status |-> "", body |-> NoMembership] :
            k \in {"ConnectError", "TimeoutException"}}
    \cup {[kind |-> "JSONDecodeError", status |-> "200", body |-> NoMembership]}

\* task_service get_project_membership taking a failed lookup for the
\* membership of an owner
get_project_membership_FailOpen(lookup) ==
    IF lookup.kind = "response" /\ lookup.status = "200" THEN lookup.body
    ELSE [isNone |-> FALSE, hasRole |-> TRUE, role |-> "owner",
          hasOther |-> FALSE]

\* task_service get_project_membership: resp.json() on 200, None otherwise
get_project_membership(lookup) ==
    IF lookup.kind = "response" /\ lookup.status = "200" THEN lookup.body
    ELSE NoMembership

\* the routes
OrgOps ==
    {"org.update_org", "org.add_member", "org.remove_member",
     "org.change_member_role", "org.create_team", "org.add_team_member",
     "org.remove_team_member"}

TaskOps ==
    {"task.create_task", "task.list_tasks", "task.my_tasks", "task.get_task",
     "task.update_task", "task.delete_task"}

ProjectOrgOps ==
    {"project.create_project", "project.list_projects",
     "project.list_all_projects"}

ProjectOps == {"project.update_project", "project.delete_project"}

SvcIdleRequest ==
    [pc |-> "idle", op |-> "", user |-> NoPrincipal,
     membership |-> NoMembership, lookup |-> NoLookup, permission |-> "",
     present |-> FALSE, answer |-> NoAnswer]

\* the requests a service can be given
SvcRequests ==
    [pc : {"received"}, op : OrgOps \cup TaskOps \cup ProjectOrgOps,
     user : TokenDatas, membership : {NoMembership}, lookup : {NoLookup},
     permission : {""}, present : BOOLEAN, answer : {NoAnswer}]
    \cup
    [pc : {"received"}, op : ProjectOps, user : TokenDatas,
     membership : Memberships, lookup : {NoLookup}, permission : {""},
     present : BOOLEAN, answer : {NoAnswer}]
    \cup
    [pc : {"received"}, op : {"task.require_project_permission"},
     user : TokenDatas, membership : {NoMembership}, lookup : Lookups,
     permission : ProjectPermission, present : {FALSE}, answer : {NoAnswer}]

\* the route op has been given the request
Receives(op) == svc.pc = "received" /\ svc.op = op

\* the request, answered
Served(answer) == [svc EXCEPT !.pc = "done", !.answer = answer]

othersOfSvc == <<rbacVars, authVars, rateVars, gwVars, health, memberships, txns>>

\* org_service: PUT /organizations/{org_id}
OrgUpdateOrg ==
    /\ Receives("org.update_org")
    /\ svc' = Served(
          Ran("OrgService.update_org", PathOrgId, {},
              OrgService_update_org(svc.present)))
    /\ UNCHANGED othersOfSvc

\* org_service: POST /organizations/{org_id}/members
OrgAddMember ==
    /\ Receives("org.add_member")
    /\ svc' = Served(
          Ran("OrgService.add_member", PathOrgId, {},
              OrgService_add_member(svc.present)))
    /\ UNCHANGED othersOfSvc

\* org_service: DELETE /organizations/{org_id}/members/{user_id}
OrgRemoveMember ==
    /\ Receives("org.remove_member")
    /\ svc' = Served(
          Ran("OrgService.remove_member", PathOrgId, {},
              OrgService_remove_member(svc.present)))
    /\ UNCHANGED othersOfSvc

\* org_service: PUT /organizations/{org_id}/members/{user_id}/role
OrgChangeMemberRole ==
    /\ Receives("org.change_member_role")
    /\ svc' = Served(
          Ran("OrgService.change_member_role", PathOrgId, {},
              OrgService_change_member_role(svc.present)))
    /\ UNCHANGED othersOfSvc

\* org_service: POST /organizations/{org_id}/teams
OrgCreateTeam ==
    /\ Receives("org.create_team")
    /\ svc' = Served(
          Ran("OrgService.create_team", PathOrgId, {}, OrgService_create_team))
    /\ UNCHANGED othersOfSvc

\* org_service: POST /organizations/{org_id}/teams/{team_id}/members
OrgAddTeamMember ==
    /\ Receives("org.add_team_member")
    /\ svc' = Served(
          Ran("OrgService.add_team_member", PathOrgId, {},
              OrgService_add_team_member(svc.present)))
    /\ UNCHANGED othersOfSvc

\* org_service: DELETE /organizations/{org_id}/teams/{team_id}/members/{user_id}
OrgRemoveTeamMember ==
    /\ Receives("org.remove_team_member")
    /\ svc' = Served(
          Ran("OrgService.remove_team_member", PathOrgId, {},
              OrgService_remove_team_member(svc.present)))
    /\ UNCHANGED othersOfSvc

\* task_service: POST /tasks
TaskCreateTask ==
    /\ Receives("task.create_task")
    /\ svc' = Served(
          IF Falsy(svc.user.org_id)
          THEN Direct("400", <<"Organization context is required">>, {})
          ELSE Ran("TaskService.create_task", svc.user.org_id, {},
                   TaskService_create_task(svc.user.org_id)))
    /\ UNCHANGED othersOfSvc

\* task_service: GET /tasks
TaskListTasks ==
    /\ Receives("task.list_tasks")
    /\ svc' = Served(
          IF Falsy(svc.user.org_id)
          THEN Direct("400", <<"Organization context is required">>, {})
          ELSE Ran("TaskService.list_tasks", svc.user.org_id, {},
                   TaskService_list_tasks(svc.user.org_id)))
    /\ UNCHANGED othersOfSvc

\* task_service: GET /tasks/my
TaskMyTasks ==
    /\ Receives("task.my_tasks")
    /\ svc' = Served(
          Ran("TaskService.list_tasks", OrEmpty(svc.user.org_id), {},
              TaskService_list_tasks(OrEmpty(svc.user.org_id))))
    /\ UNCHANGED othersOfSvc

\* task_service: GET /tasks/{task_id}
TaskGetTask ==
    /\ Receives("task.get_task")
    /\ svc' = Served(
          Ran("TaskService.get_task", OrEmpty(svc.user.org_id), {},
              TaskService_get_task(svc.present)))
    /\ UNCHANGED othersOfSvc

\* task_service: PUT /tasks/{task_id}
TaskUpdateTask ==
    /\ Receives("task.update_task")
    /\ svc' = Served(
          Ran("TaskService.update_task", OrEmpty(svc.user.org_id), {},
              TaskService_update_task(OrEmpty(svc.user.org_id), svc.present)))
    /\ UNCHANGED othersOfSvc

\* task_service: DELETE /tasks/{task_id}
TaskDeleteTask ==
    /\ Receives("task.delete_task")
    /\ svc' = Served(
          Ran("TaskService.delete_task", OrEmpty(svc.user.org_id), {},
              TaskService_delete_task(OrEmpty(svc.user.org_id), svc.present)))
    /\ UNCHANGED othersOfSvc

\* task_service: the dependency require_project_permission(permission)
TaskRequireProjectPermission ==
    LET perm == check_project_permission(
                    svc.user, get_project_membership(svc.lookup),
                    svc.permission)
    IN  /\ Receives("task.require_project_permission")
        /\ svc' = Served(
              [Direct(IF perm.status = "ok" THEN "200" ELSE HttpStatus(perm),
                      perm.detail,
                      IF perm.status = "ok" THEN {"check_project_permission"}
                      ELSE {})
               EXCEPT !.perm = perm])
        /\ UNCHANGED othersOfSvc

\* project_service: POST /projects
ProjectCreateProject ==
    LET c == check_org_permission(svc.user, "manage_projects")
    IN  /\ Receives("project.create_project")
        /\ svc' = Served(
              IF c.status # "ok" THEN Direct(HttpStatus(c), c.detail, {})
              ELSE IF Falsy(svc.user.org_id)
              THEN Direct("400", <<"No organization context">>,
                          {"check_org_permission"})
              ELSE Ran("ProjectService.create_project", svc.user.org_id,
                       {"check_org_permission"},
                       ProjectService_create_project(svc.user.org_id)))
        /\ UNCHANGED othersOfSvc

\* project_service: GET /projects
ProjectListProjects ==
    /\ Receives("project.list_projects")
    /\ svc' = Served(
          IF Falsy(svc.user.org_id) THEN Direct("200", <<>>, {})
          ELSE Ran("ProjectService.list_user_projects", svc.user.org_id, {},
                   ProjectService_list_user_projects(svc.user.org_id)))
    /\ UNCHANGED othersOfSvc

\* project_service: GET /projects/all
ProjectListAllProjects ==
    LET c == check_org_permission(svc.user, "manage_projects")
    IN  /\ Receives("project.list_all_projects")
        /\ svc' = Served(
              IF c.status # "ok" THEN Direct(HttpStatus(c), c.detail, {})
              ELSE IF Falsy(svc.user.org_id)
              THEN Direct("200", <<>>, {"check_org_permission"})
              ELSE Ran("ProjectService.list_projects", svc.user.org_id,
                       {"check_org_permission"},
                       ProjectService_list_projects(svc.user.org_id)))
        /\ UNCHANGED othersOfSvc

\* project_service: PUT /projects/{project_id}
ProjectUpdateProject ==
    LET perm == check_project_permission(svc.user, svc.membership,
                                         "edit_project")
    IN  /\ Receives("project.update_project")
        /\ svc' = Served(
              IF perm.status # "ok"
              THEN Direct(HttpStatus(perm), perm.detail, {})
              ELSE Ran("ProjectService.update_project", perm.org_id,
                       {"check_project_permission"},
                       ProjectService_update_project(perm.org_id,
                                                     svc.present)))
        /\ UNCHANGED othersOfSvc

\* project_service: DELETE /projects/{project_id}
ProjectDeleteProject ==
    LET perm == check_project_permission(svc.user, svc.membership,
                                         "delete_project")
    IN  /\ Receives("project.delete_project")
        /\ svc' = Served(
              IF perm.status # "ok"
              THEN Direct(HttpStatus(perm), perm.detail, {})
              ELSE Ran("ProjectService.delete_project", perm.org_id,
                       {"check_project_permission"},
                       ProjectService_delete_project(perm.org_id,
                                                     svc.present)))
        /\ UNCHANGED othersOfSvc

(***************************************************************************)
(* org_service and project_service : add_member, remove_member,             *)
(* change_member_role, each in its own database session                     *)
(*                                                                          *)
(* Both services keep one table of memberships with a unique constraint on  *)
(* (org_id, user_id), (project_id, user_id); the model follows one such     *)
(* pair in each table.  A call runs in the session get_session yields:      *)
(* its statements read what is committed, its writes are held until the     *)
(* commit that follows the handler's return, and an exception rolls the     *)
(* session back.  A statement that needs a row or a key another session     *)
(* holds an uncommitted write on waits for that session.                    *)
(***************************************************************************)
\* the number of membership calls of a run
MaxMemberCalls == 3

MemberTables == {"org_memberships", "project_memberships"}

\* data.role
MemberRoles == {"member", "admin"}

NoWrite == [kind |-> "none", rid |-> 0, role |-> ""]

NoRow == [rid |-> 0, role |-> ""]

\* the committed rows of a table for the pair
Rows(table) == {r \in memberships : r.table = table}

\* the session of call i holds an uncommitted write
Holding(i) == txns[i].pc = "commit" /\ txns[i].write.kind # "none"

\* an INSERT of the pair waits while another session holds a write on it
InsertWaits(i) ==
    \E j \in 1..Len(txns) :
        j # i /\ txns[j].table = txns[i].table /\ Holding(j)

\* an UPDATE or DELETE of the committed row waits while another session
\* holds an UPDATE or DELETE of it
RowWaits(i) ==
    \E j \in 1..Len(txns) :
        /\ j # i
        /\ txns[j].table = txns[i].table
        /\ Holding(j)
        /\ txns[j].write.kind \in {"update", "delete"}

\* the session's commit applied to the table
Committed(rows, table, write) ==
    CASE write.kind = "insert" ->
            rows \cup {[table |-> table, rid |-> write.rid, role |-> write.role]}
      [] write.kind = "delete" ->
            {r \in rows : ~(r.table = table /\ r.rid = write.rid)}
      [] write.kind = "update" ->
            {IF r.table = table /\ r.rid = write.rid
             THEN [r EXCEPT !.role = write.role] ELSE r : r \in rows}
      [] OTHER -> rows

MembersIdle == memberships = {} /\ txns = <<>>

othersOfMembers == <<rbacVars, authVars, rateVars, gwVars, health, svc>>

\* a request for add_member, remove_member or change_member_role arrives and
\* get_session opens its session
MemberCall ==
    /\ Len(txns) < MaxMemberCalls
    /\ \E table \in MemberTables, role \in MemberRoles,
          op \in {"add_member", "remove_member", "change_member_role"} :
        txns' = Append(txns,
                    [table |-> table, op |-> op, role |-> role, pc |-> "begin",
                     status |-> "", existing |-> FALSE, seen |-> NoRow,
                     write |-> NoWrite])
    /\ UNCHANGED <<memberships, othersOfMembers>>

\* add_member: the select for an existing membership, and the 409
AddMemberSelect ==
    /\ \E i \in 1..Len(txns) :
        /\ txns[i].op = "add_member"
        /\ txns[i].pc = "begin"
        /\ txns' = [txns EXCEPT ![i] =
                IF Rows(txns[i].table) # {}
                THEN [@ EXCEPT !.pc = "done", !.status = "409",
                               !.existing = TRUE]
                ELSE [@ EXCEPT !.pc = "flush"]]
    /\ UNCHANGED <<memberships, othersOfMembers>>

\* add_member: db.add(membership) and flush(); the INSERT meets the unique
\* constraint, and IntegrityError leaves the handler uncaught
AddMemberFlush ==
    /\ \E i \in 1..Len(txns) :
        /\ txns[i].op = "add_member"
        /\ txns[i].pc = "flush"
        /\ ~InsertWaits(i)
        /\ txns' = [txns EXCEPT ![i] =
                IF Rows(txns[i].table) # {}
                THEN [@ EXCEPT !.pc = "done", !.status = "500",
                               !.existing = TRUE]
                ELSE [@ EXCEPT !.pc = "commit", !.status = "201",
                               !.write = [kind |-> "insert", rid |-> i,
                                          role |-> txns[i].role]]]
    /\ UNCHANGED <<memberships, othersOfMembers>>

\* remove_member: the DELETE and the test of its rowcount
RemoveMember ==
    /\ \E i \in 1..Len(txns) :
        /\ txns[i].op = "remove_member"
        /\ txns[i].pc = "begin"
        /\ ~RowWaits(i)
        /\ txns' = [txns EXCEPT ![i] =
                IF Rows(txns[i].table) = {}
                THEN [@ EXCEPT !.pc = "done", !.status = "404"]
                ELSE LET row == CHOOSE r \in Rows(txns[i].table) : TRUE
                     IN  [@ EXCEPT !.pc = "commit", !.status = "204",
                                   !.write = [kind |-> "delete",
                                              rid |-> row.rid, role |-> ""]]]
    /\ UNCHANGED <<memberships, othersOfMembers>>

\* change_member_role: the select, and the 404
ChangeMemberRoleSelect ==
    /\ \E i \in 1..Len(txns) :
        /\ txns[i].op = "change_member_role"
        /\ txns[i].pc = "begin"
        /\ txns' = [txns EXCEPT ![i] =
                IF Rows(txns[i].table) = {}
                THEN [@ EXCEPT !.pc = "done", !.status = "404"]
                ELSE LET row == CHOOSE r \in Rows(txns[i].table) : TRUE
                     IN  [@ EXCEPT !.pc = "flush",
                                   !.seen = [rid |-> row.rid,
                                             role |-> row.role]]]
    /\ UNCHANGED <<memberships, othersOfMembers>>

\* change_member_role: membership.role = data.role and flush(); no UPDATE is
\* sent for an unchanged role, and an UPDATE that matches no row raises
\* StaleDataError
ChangeMemberRoleFlush ==
    /\ \E i \in 1..Len(txns) :
        /\ txns[i].op = "change_member_role"
        /\ txns[i].pc = "flush"
        /\ txns[i].seen.role # txns[i].role => ~RowWaits(i)
        /\ txns' = [txns EXCEPT ![i] =
                IF txns[i].seen.role = txns[i].role
                THEN [@ EXCEPT !.pc = "commit", !.status = "200"]
                ELSE IF \A r \in Rows(txns[i].table) : r.rid # txns[i].seen.rid
                THEN [@ EXCEPT !.pc = "done", !.status = "500"]
                ELSE [@ EXCEPT !.pc = "commit", !.status = "200",
                               !.write = [kind |-> "update",
                                          rid |-> txns[i].seen.rid,
                                          role |-> txns[i].role]]]
    /\ UNCHANGED <<memberships, othersOfMembers>>

\* get_session: the handler has returned, session.commit()
MemberCommit ==
    /\ \E i \in 1..Len(txns) :
        /\ txns[i].pc = "commit"
        /\ memberships' = Committed(memberships, txns[i].table, txns[i].write)
        /\ txns' = [txns EXCEPT ![i] = [@ EXCEPT !.pc = "done"]]
    /\ UNCHANGED othersOfMembers

DownstreamIdle ==
    health = HealthIdleRun /\ svc = SvcIdleRequest /\ MembersIdle

(***************************************************************************)
(* Specifications                                                           *)
(***************************************************************************)
InitRbac ==
    /\ rbac \in RbacCalls /\ now = 0 /\ AuthIdle /\ RateIdle /\ GwIdle
    /\ DownstreamIdle

NextRbac ==
    \/ CheckProjectPermission \/ CheckOrgPermission \/ CheckOrgRole
    \/ GetOrgPermissions \/ GetProjectPermissions

SpecRbac == InitRbac /\ [][NextRbac]_vars

InitAuth ==
    /\ RbacIdle
    /\ now = 0
    /\ issued = {}
    /\ nextJti = 1
    /\ redis = {}
    /\ loggedOut = {}
    /\ auth = NoAuthOp
    /\ orgOf \in [UserIds -> OrgContexts]
    /\ RateIdle
    /\ GwIdle
    /\ DownstreamIdle

NextAuth ==
    Login \/ Refresh \/ RefreshStoreDown \/ Logout \/ GetCurrentUser \/ TickAuth

SpecAuth == InitAuth /\ [][NextAuth]_vars

\* lifespan: redis.from_url gave a client, or raised and left None
InitRate ==
    /\ RbacIdle
    /\ now = 0
    /\ AuthIdle
    /\ rateClient \in {"none", "connected"}
    /\ zset = {}
    /\ keyExpiry = 0
    /\ reqs = <<>>
    /\ execOrder = <<>>
    /\ GwIdle
    /\ DownstreamIdle

NextRate == Arrive \/ Execute \/ ExecuteFails \/ TickRate

SpecRate == InitRate /\ [][NextRate]_vars

\* lifespan and settings: the store client and the public key, each present
\* or not
InitGateway ==
    /\ RbacIdle
    /\ now = 0
    /\ AuthIdle
    /\ rateClient \in {"none", "connected"}
    /\ zset = {}
    /\ keyExpiry = 0
    /\ reqs = <<>>
    /\ execOrder = <<>>
    /\ publicKey \in {"", "pem"}
    /\ gw = GwIdleRequest
    /\ DownstreamIdle

NextGateway ==
    \/ GwReceive \/ GwRateLimit \/ GwRateLimitFails \/ GwAuthenticate
    \/ GwRoute \/ GwForward \/ GwRespond \/ GwTick

SpecGateway == InitGateway /\ [][NextGateway]_vars

InitHealth ==
    /\ RbacIdle /\ now = 0 /\ AuthIdle /\ RateIdle /\ GwIdle
    /\ health = HealthIdleRun
    /\ svc = SvcIdleRequest
    /\ MembersIdle

NextHealth == HealthStart \/ HealthProbe \/ HealthReturn

SpecHealth == InitHealth /\ [][NextHealth]_vars

InitServices ==
    /\ RbacIdle /\ now = 0 /\ AuthIdle /\ RateIdle /\ GwIdle
    /\ health = HealthIdleRun
    /\ svc \in SvcRequests
    /\ MembersIdle

NextServices ==
    \/ OrgUpdateOrg \/ OrgAddMember \/ OrgRemoveMember \/ OrgChangeMemberRole
    \/ OrgCreateTeam \/ OrgAddTeamMember \/ OrgRemoveTeamMember
    \/ TaskCreateTask \/ TaskListTasks \/ TaskMyTasks \/ TaskGetTask
    \/ TaskUpdateTask \/ TaskDeleteTask \/ TaskRequireProjectPermission
    \/ ProjectCreateProject \/ ProjectListProjects \/ ProjectListAllProjects
    \/ ProjectUpdateProject \/ ProjectDeleteProject

SpecServices == InitServices /\ [][NextServices]_vars

InitMembers ==
    /\ RbacIdle /\ now = 0 /\ AuthIdle /\ RateIdle /\ GwIdle
    /\ health = HealthIdleRun
    /\ svc = SvcIdleRequest
    /\ memberships = {}
    /\ txns = <<>>

NextMembers ==
    \/ MemberCall \/ AddMemberSelect \/ AddMemberFlush \/ RemoveMember
    \/ ChangeMemberRoleSelect \/ ChangeMemberRoleFlush \/ MemberCommit

SpecMembers == InitMembers /\ [][NextMembers]_vars

(***************************************************************************)
(* Properties of the token lifecycle (checked under SpecAuth)               *)
(***************************************************************************)
\* the token of the last operation was validly signed and unexpired then
PresentedTokenVerifies == Decodes(auth.token, auth.at)

\* C1: once logout(R) has returned normally for a refresh token R, every later
\* refresh_token(R) made while R's signature and expiry still verify is
\* rejected with 401 and mints no access token.
C1_RevokedNeverRefreshes ==
    (auth.op = "refresh"
     /\ auth.token \in loggedOut
     /\ PresentedTokenVerifies)
        => (auth.status = "401" /\ auth.minted = NoToken)

Executed == {execOrder[k] : k \in 1..Len(execOrder)}

\* every executed request read the clock, and reached the store, inside one
\* and the same 60-second window
InOneWindow ==
    LET times == {reqs[i].now : i \in Executed} \cup {reqs[i].at : i \in Executed}
    IN  \A a \in times, b \in times : a - b < Window

\* C3: starting from an empty window, the k-th request of one 60-second window
\* is returned the count k (no two requests share a member); the first N are
\* admitted and a later one is denied with 429 and Retry-After: 60.
C3_CountIsOrdinal ==
    (rateClient = "connected" /\ InOneWindow)
        => \A k \in 1..Len(execOrder) :
              LET r == reqs[execOrder[k]]
              IN  /\ r.count = k
                  /\ IF k <= RateLimitPerMinute
                     THEN r.pc = "admitted"
                     ELSE r.pc = "denied" /\ r.status = "429"
                          /\ r.retry_after = "60"

\* C4: the four commands run as one step on the store, and under any
\* interleaving of concurrent requests of one client the number of requests
\* admitted in one window never exceeds the threshold.
C4_NeverAdmitsPastThreshold ==
    (rateClient = "connected" /\ InOneWindow)
        => Cardinality({i \in Executed : reqs[i].pc = "admitted"})
              <= RateLimitPerMinute

(***************************************************************************)
(* Properties of the proxy handler (checked under SpecGateway)              *)
(***************************************************************************)
\* the request carries "Authorization: Bearer <token>" with a token whose
\* signature verified, unexpired, when the handler authenticated it
BearerVerifies ==
    /\ publicKey = "pem"
    /\ \E h \in gw.headers :
        /\ h.name = "authorization"
        /\ h.text = "Bearer "
        /\ h.token.sig = "good"
        /\ gw.auth_at <= h.token.exp

\* the request was served past check_rate_limit
PastRateLimit ==
    /\ gw.pc \in {"route", "forward", "done"}
    /\ gw.response.status # "429"
    /\ gw.response # HttpError("500", "ConnectionError")

ProjectCallDone == rbac.fn = "check_project_permission" /\ rbac.done

OrgCallDone == rbac.fn = "check_org_permission" /\ rbac.done

AssignedVariants == {"edit_assigned_task", "delete_assigned_task"}

AnyVariants == {"edit_any_task", "delete_any_task"}

\* C5: a principal whose org_role is org_admin passes check_project_permission
\* for every permission and every membership (None, empty, any role string,
\* no role key); the call never raises.
C5_OrgAdminBypass ==
    (ProjectCallDone /\ rbac.user.org_role = "org_admin")
        => /\ rbac.result.status = "ok"
           /\ rbac.result.role = "org_admin"

C5_Witness ==
    /\ ProjectCallDone
    /\ rbac.user.org_role = "org_admin"
    /\ rbac.membership.isNone
    /\ rbac.permission = "delete_project"
    /\ rbac.result.status = "ok"

\* C6: whenever check_project_permission succeeds, check_assignment is true
\* exactly when the resolved role is team_member and the permission is one of
\* the assigned variants; a principal resolved to team_member that asks for
\* edit_any_task or delete_any_task is denied with 403.
C6_CheckAssignment ==
    /\ (ProjectCallDone /\ rbac.result.status = "ok")
          => (rbac.result.check_assignment
                <=> (rbac.result.role = "team_member"
                     /\ rbac.permission \in AssignedVariants))
    /\ (ProjectCallDone
         /\ rbac.user.org_role # "org_admin"
         /\ rbac.membership.hasRole
         /\ rbac.membership.role = "team_member"
         /\ rbac.permission \in AnyVariants)
          => rbac.result.status = "403"
    /\ (ProjectCallDone
         /\ rbac.user.org_role # "org_admin"
         /\ rbac.membership.hasRole
         /\ rbac.membership.role = "team_member"
         /\ rbac.permission \in AssignedVariants)
          => (rbac.result.status = "ok" /\ rbac.result.check_assignment)

C6_Witness ==
    /\ ProjectCallDone
    /\ rbac.membership.role = "team_member"
    /\ rbac.permission = "edit_assigned_task"
    /\ rbac.result.status = "ok"
    /\ rbac.result.check_assignment

\* C7: for a principal that is not org_admin and whose membership role is
\* viewer, check_project_permission succeeds for view and is denied with 403
\* for every other permission.
C7_ViewerOnlyView ==
    (ProjectCallDone
     /\ rbac.user.org_role # "org_admin"
     /\ rbac.membership.hasRole
     /\ rbac.membership.role = "viewer")
        => IF rbac.permission = "view"
           THEN rbac.result.status = "ok" /\ rbac.result.role = "viewer"
           ELSE rbac.result.status = "403"

C7_Witness ==
    /\ ProjectCallDone
    /\ rbac.user.org_role # "org_admin"
    /\ rbac.membership.role = "viewer"
    /\ rbac.permission = "post_comment"
    /\ rbac.result.status = "403"

\* the fixed sets as the specification states them
C8_FixedSet(role) ==
    CASE role = "member" -> {}
      [] role = "proj_admin" -> {"manage_projects", "manage_teams"}
      [] role = "org_admin" -> OrgPermission

\* C8: check_org_permission decides in the stated order: no org_role gives
\* 403 "no role"; a role whose fixed set lacks the permission gives 403
\* "permission denied"; a role whose fixed set has it succeeds; and it
\* succeeds in no other case.  member grants nothing, proj_admin grants
\* manage_projects and manage_teams, org_admin grants all six.
C8_OrgDecisionOrder ==
    OrgCallDone =>
        /\ rbac.user.org_role \in {None, ""}
              => /\ rbac.result.status = "403"
                 /\ rbac.result.detail = <<"No organization role assigned">>
        /\ (rbac.user.org_role \in OrgRole
             /\ rbac.permission \notin C8_FixedSet(rbac.user.org_role))
              => /\ rbac.result.status = "403"
                 /\ rbac.result.detail[1] = "Org Permission '"
        /\ (rbac.user.org_role \in OrgRole
             /\ rbac.permission \in C8_FixedSet(rbac.user.org_role))
              => rbac.result.status = "ok"
        /\ rbac.result.status = "ok" => rbac.user.org_role \in OrgRole

C8_Witness ==
    /\ OrgCallDone
    /\ rbac.user.org_role = "proj_admin"
    /\ rbac.permission = "manage_org_members"
    /\ rbac.result.status = "403"
    /\ rbac.result.detail[1] = "Org Permission '"

\* C9: for a principal that is not org_admin, an absent membership (None or
\* empty) is rejected with 403 "not a member"; a present membership with a
\* project role is rejected with 403 "permission denied" when the role's set
\* lacks the permission; and the call succeeds only for a present membership
\* whose role's set has the permission.
C9_ProjectDecisionOrder ==
    (ProjectCallDone /\ rbac.user.org_role # "org_admin") =>
        /\ ~Truthy(rbac.membership)
              => /\ rbac.result.status = "403"
                 /\ rbac.result.detail = <<"Not a member of this project">>
        /\ (Truthy(rbac.membership)
             /\ rbac.membership.hasRole
             /\ rbac.membership.role \in ProjectRole
             /\ rbac.permission \notin PROJECT_PERMISSIONS(rbac.membership.role))
              => /\ rbac.result.status = "403"
                 /\ rbac.result.detail[1] = "Permission '"
        /\ rbac.result.status = "ok"
              <=> /\ Truthy(rbac.membership)
                  /\ rbac.membership.hasRole
                  /\ rbac.membership.role \in ProjectRole
                  /\ rbac.permission \in PROJECT_PERMISSIONS(rbac.membership.role)

C9_Witness ==
    /\ ProjectCallDone
    /\ rbac.user.org_role = "member"
    /\ rbac.membership = [isNone |-> FALSE, hasRole |-> FALSE, role |-> "",
                          hasOther |-> FALSE]
    /\ rbac.result.detail = <<"Not a member of this project">>

(***************************************************************************)
(* Public paths and routing (checked under SpecGateway)                     *)
(***************************************************************************)
\* the handler has let the request past its authentication block
PastAuthentication == gw.pc \in {"route", "forward"} \/ gw.sent \/ gw.call # NoCall

\* C11: authentication is skipped only for a path that is one of the
\* allowlisted public paths: a request to any other path, one that merely
\* begins with an allowlisted path included, gets past the authentication
\* block only with a verified bearer credential.
C11_OnlyAllowlistSkipsAuth ==
    (gw.pc # "idle" /\ gw.path \notin PUBLIC_PATHS /\ PastAuthentication)
        => BearerVerifies

\* the number of characters of a piece of a path
Chars(piece) ==
    CASE piece = "/api/v1" -> 7
      [] piece = "/auth" -> 5
      [] piece = "/organizations" -> 14
      [] piece = "/projects" -> 9
      [] piece = "/tasks" -> 6
      [] piece = "/notifications" -> 14
      [] piece = "/files" -> 6
      [] OTHER -> 1

\* len(text)
RECURSIVE TextLen(_)
TextLen(text) ==
    IF text = <<>> THEN 0 ELSE Chars(Head(text)) + TextLen(Tail(text))

\* the entries of the route table whose prefix the path starts with
Matching(path) ==
    {i \in 1..Len(ROUTE_MAP) : StartsWith(path, ROUTE_MAP[i].prefix)}

\* the handler has resolved the destination of the request
Resolved == gw.pc = "forward" \/ gw.sent \/ gw.response.status = "404"

\* C12: resolve_service_url returns the backend of the longest prefix of the
\* route table that matches the path, which is also the first that matches,
\* together with the path without its leading /api/v1, and None when no
\* prefix matches; a request whose path matches no prefix is answered 404
\* and no backend is called.
C12_LongestPrefixOr404 ==
    (gw.pc # "idle" /\ Resolved) =>
        /\ gw.route.found <=> Matching(gw.path) # {}
        /\ gw.route.found =>
              \E i \in Matching(gw.path) :
                /\ \A j \in Matching(gw.path) :
                      /\ TextLen(ROUTE_MAP[j].prefix) <= TextLen(ROUTE_MAP[i].prefix)
                      /\ i <= j
                /\ gw.route.base_url = GatewaySettings(ROUTE_MAP[i].attr)
                /\ <<"/api/v1">> \o gw.route.downstream_path = gw.path
                /\ gw.call.base_url = gw.route.base_url
                /\ gw.call.path = gw.route.downstream_path
        /\ ~gw.route.found =>
              /\ gw.route = NoRoute
              /\ gw.pc = "done"
              /\ gw.response = HttpError("404", "Service not found for this path")
              /\ ~gw.sent
              /\ gw.call = NoCall

C12_Witness ==
    /\ gw.pc = "done"
    /\ gw.path = <<"/api/v1", "/reports">>
    /\ BearerVerifies
    /\ gw.response.status = "404"
    /\ ~gw.sent

(***************************************************************************)
(* Forwarding (checked under SpecGateway)                                   *)
(***************************************************************************)
\* every header line of the request as it came in
RequestHeaderLines == gw.headers \cup gw.repeats

\* C13: for every forwarded request the backend call has no host header,
\* has X-User-Id set to the verified sub and X-Org-Id to the verified org_id
\* when the token carries them, and carries the method, every other header
\* line of the request, the query string and the body unchanged.
C13_ForwardedUnchanged ==
    (gw.pc # "idle" /\ gw.call # NoCall) =>
        /\ ~HasHeader(gw.call.headers, "host")
        /\ gw.user_claims.sub # ""
              => Header("X-User-Id", gw.user_claims.sub, NoToken) \in gw.call.headers
        /\ gw.user_claims.org_id # None
              => Header("X-Org-Id", gw.user_claims.org_id, NoToken)
                    \in gw.call.headers
        /\ \A h \in RequestHeaderLines : h.name # "host" => h \in gw.call.headers
        /\ \A h \in gw.call.headers :
              h \in RequestHeaderLines \/ h.name \in {"X-User-Id", "X-Org-Id"}
        /\ gw.call.method = gw.method
        /\ gw.call.query = gw.query
        /\ gw.call.content = BodyOf(gw.method)

\* C14: every transport failure of the backend call is translated at the
\* edge: a connection failure gives 503, a timeout gives 504, and no other
\* transport exception leaves the handler as it was raised; an answer of the
\* backend is relayed with its status, body and headers.
C14_TransportTranslated ==
    (gw.pc # "idle" /\ gw.sent) =>
        /\ gw.outcome.kind = "response"
              => gw.response = [status |-> gw.outcome.status, detail |-> "",
                                headers |-> gw.outcome.headers,
                                content |-> gw.outcome.content]
        /\ gw.outcome.kind = "ConnectError" => gw.response.status = "503"
        /\ gw.outcome.kind = "TimeoutException" => gw.response.status = "504"
        /\ gw.outcome.kind # "response"
              => /\ gw.response.status \in {"502", "503", "504"}
                 /\ gw.response.detail # gw.outcome.kind

(***************************************************************************)
(* Store outages (checked under SpecRate and SpecAuth)                      *)
(***************************************************************************)
\* C15: when the rate-limit store is unavailable, because no client could be
\* created or because the pipeline call fails at request time,
\* check_rate_limit admits the request: no request is rejected or fails
\* on account of the store.
C15_StoreOutageAdmits ==
    \A i \in 1..Len(reqs) :
        /\ rateClient = "none" => reqs[i].pc = "admitted"
        /\ reqs[i].pc # "error"
        /\ reqs[i].status \in {"", "429"}

\* C16: when the revocation store cannot be reached during refresh_token,
\* the outage is absorbed: the call goes on to the signature and type
\* verification and its result is theirs, never a store error.
C16_RevocationOutageAbsorbed ==
    (auth.op = "refresh" /\ auth.store = "down") =>
        /\ auth.status # "ConnectionError"
        /\ auth.status = IF PresentedTokenVerifies /\ auth.token.type = "refresh"
                         THEN "200" ELSE "401"

(***************************************************************************)
(* The tombstone of a revoked token (checked under SpecAuth)                *)
(***************************************************************************)
\* the entries of the store that are the tombstone logout wrote for token
Tombstones(token) ==
    {e \in redis : e.key = BlacklistKey(JtiText(token.jti)) /\ now < e.expires_at}

\* C17: the tombstone logout writes for a refresh token is in the store as
\* soon as logout has returned and stays there until the token's own exp:
\* the ttl given to the store is never shorter than the lifetime the token
\* has left.
C17_TombstoneOutlivesToken ==
    \A token \in loggedOut :
        now < token.exp
            => \E e \in Tombstones(token) : e.expires_at >= token.exp

C17_Witness ==
    \E token \in loggedOut :
        \E e \in Tombstones(token) :
            /\ e.expires_at - RefreshTtl < now
            /\ now < token.exp

(***************************************************************************)
(* The window elapses (checked under SpecRate)                              *)
(***************************************************************************)
\* request i was counted after the client had been denied and had then sent
\* nothing for a full window: every other request came Window or more
\* earlier, and one of them was denied
AfterQuietWindow(i) ==
    /\ reqs[i].pc \in {"admitted", "denied"}
    /\ \E j \in 1..Len(reqs) : j < i /\ reqs[j].pc = "denied"
    /\ \A j \in 1..Len(reqs) : j # i => reqs[j].now + Window <= reqs[i].now

\* C18: after a client has been denied and has then sent no request for a
\* full 60 seconds, its next request is admitted: every entry recorded 60
\* or more seconds earlier is evicted before the count is taken, which is 1.
C18_AdmittedAfterWindow ==
    \A i \in 1..Len(reqs) :
        AfterQuietWindow(i) => (reqs[i].pc = "admitted" /\ reqs[i].count = 1)

C18_Witness ==
    \E i \in 1..Len(reqs) :
        /\ AfterQuietWindow(i)
        /\ reqs[i].now = Window
        /\ reqs[i].pc = "admitted"

(***************************************************************************)
(* Token type at the edge (checked under SpecGateway)                       *)
(***************************************************************************)
\* C19: every place that takes a bearer token as an access credential
\* rejects a validly signed refresh token: the proxy's authentication lets
\* no request past on the strength of a token whose type is refresh.
C19_RefreshNotAnAccessCredential ==
    (gw.pc # "idle" /\ ~is_public(gw.path) /\ PastAuthentication)
        => gw.user_claims.type # "refresh"

(***************************************************************************)
(* Unrecognized roles (checked under SpecRbac)                              *)
(***************************************************************************)
\* a non-empty role string that is in neither permission table
Unrecognized(role) == role \notin OrgRole \cup ProjectRole \cup {None, ""}

\* the call was given such a role string
UnrecognizedRoleCall ==
    /\ rbac.done
    /\ CASE rbac.fn = "check_org_permission" -> Unrecognized(rbac.user.org_role)
          [] rbac.fn = "check_project_permission" ->
                /\ rbac.user.org_role # "org_admin"
                /\ Truthy(rbac.membership)
                /\ rbac.membership.hasRole
                /\ Unrecognized(rbac.membership.role)
          [] rbac.fn = "get_org_permissions" -> Unrecognized(rbac.role)
          [] rbac.fn = "get_project_permissions" -> Unrecognized(rbac.role)
          [] OTHER -> FALSE

\* C20: a role string that is in neither permission table never gives a
\* grant, a denial or an empty default: check_org_permission,
\* check_project_permission, get_org_permissions and get_project_permissions
\* each fail with an error that is not a 403.
C20_UnknownRoleFailsLoudly ==
    UnrecognizedRoleCall => rbac.result.status \notin {"ok", "403"}

(***************************************************************************)
(* Organization context of a token (checked under SpecAuth)                 *)
(***************************************************************************)
\* C21: the access token a refresh mints carries exactly the org_id and
\* org_role of the refresh token presented, absent where they were absent;
\* and the principal get_current_user builds from a token that carries an
\* org_id has that org_id, whatever the X-Org-Id header says.
C21_OrgContextFollowsToken ==
    /\ (auth.op = "refresh" /\ auth.status = "200")
        => /\ auth.minted.org_id = auth.token.org_id
           /\ auth.minted.org_role = auth.token.org_role
    /\ (auth.op = "get_current_user" /\ auth.status = "200"
            /\ auth.token.org_id # None)
        => auth.user.org_id = auth.token.org_id

\* a principal was built from a token with an org_id, under a header naming
\* another organization
C21_Witness ==
    /\ auth.op = "get_current_user"
    /\ auth.status = "200"
    /\ auth.token.org_id = "o1"
    /\ auth.header = "o2"
    /\ auth.user.org_id = "o1"

(***************************************************************************)
(* Required org roles (checked under SpecRbac)                              *)
(***************************************************************************)
\* C26: a principal whose org_role is org_admin passes check_org_role for
\* every list of required roles, including a list that does not name
\* org_admin.
C26_OrgAdminPassesEveryRoleList ==
    (rbac.fn = "check_org_role" /\ rbac.done /\ rbac.user.org_role = "org_admin")
        => rbac.result.status = "ok"

(***************************************************************************)
(* Order of the proxy's steps (checked under SpecGateway)                   *)
(***************************************************************************)
\* C25: the proxy runs rate limit, authentication, route resolution, header
\* injection and forward in that order.  A request over the limit is
\* answered 429 before its token is verified; a request that fails
\* authentication is answered 401 before any route is resolved, so an
\* unauthenticated request to a non-public path that no route serves gets
\* 401 and not 404; 404 comes before any backend request is built; headers
\* are built only for a resolved route and sent only once built.
C25_StepsInOrder ==
    gw.pc # "idle" =>
        /\ gw.response.status = "429"
              => /\ gw.user_claims = NoToken
                 /\ gw.route = NoRoute
                 /\ gw.call = NoCall
                 /\ ~gw.sent
        /\ (rateClient = "connected" /\ gw.pc \in {"auth", "route", "forward"})
              => gw.count >= 1
        /\ gw.response.status = "401"
              => /\ gw.route = NoRoute
                 /\ gw.call = NoCall
                 /\ ~gw.sent
        /\ (gw.pc = "done" /\ PastRateLimit /\ ~is_public(gw.path)
              /\ ~BearerVerifies /\ ~resolve_service_url(gw.path).found)
              => gw.response.status = "401"
        /\ gw.response = HttpError("404", "Service not found for this path")
              => /\ is_public(gw.path) \/ gw.user_claims.sig = "good"
                 /\ gw.call = NoCall
                 /\ ~gw.sent
        /\ gw.call # NoCall
              => /\ gw.route.found
                 /\ gw.call.headers = forward_headers(gw.headers, gw.user_claims)
        /\ gw.sent => gw.call # NoCall

\* a request without credentials to /api/v1/reports, which no route serves,
\* was answered 401
C25_Witness ==
    /\ gw.pc = "done"
    /\ gw.path = <<"/api/v1", "/reports">>
    /\ ~HasHeader(gw.headers, "authorization")
    /\ ~resolve_service_url(gw.path).found
    /\ gw.response.status = "401"
    /\ gw.route = NoRoute

(***************************************************************************)
(* Denied requests and the window (checked under SpecRate)                  *)
(***************************************************************************)
\* the requests executed before the k-th whose clock reading lies in the 60
\* seconds before that of the k-th
RecordedBefore(k) ==
    {m \in 1..(k - 1) :
        /\ reqs[execOrder[m]].now > reqs[execOrder[k]].now - Window
        /\ reqs[execOrder[m]].now <= reqs[execOrder[k]].now}

\* C28: every request that reaches the store adds one entry to the window,
\* admitted or denied, so that a request is admitted only if at most
\* threshold - 1 requests, admitted or denied, were recorded in the 60
\* seconds before it.
C28_DeniedRequestsCount ==
    rateClient = "connected"
        => \A k \in 1..Len(execOrder) :
              reqs[execOrder[k]].pc = "admitted"
                  => Cardinality(RecordedBefore(k)) <= RateLimitPerMinute - 1

(***************************************************************************)
(* Identity headers a backend receives (checked under SpecGateway)          *)
(***************************************************************************)
\* header names compare without regard to case
LowerName(name) ==
    CASE name = "X-Org-Id" -> "x-org-id"
      [] name = "X-User-Id" -> "x-user-id"
      [] OTHER -> name

\* C30: the X-User-Id and X-Org-Id values a backend receives never come from
\* the client: every such line of the forwarded request carries the value of
\* the verified claims (which do not depend on the client's identity
\* headers), so two requests that differ only in the identity headers the
\* client supplied are forwarded with the same identity headers, on public
\* paths and on authenticated paths whose token has no org_id as well.
C30_IdentityHeadersFromClaims ==
    gw.call # NoCall =>
        \A h \in gw.call.headers :
            /\ LowerName(h.name) = "x-org-id" => h.text = gw.user_claims.org_id
            /\ LowerName(h.name) = "x-user-id" => h.text = gw.user_claims.sub

(***************************************************************************)
(* Permission checks of the downstream services (checked under             *)
(* SpecServices)                                                            *)
(***************************************************************************)
\* C22: every state-mutating operation of a downstream service calls the
\* PermissionEngine for the requesting principal before it mutates state:
\* no org member add, remove or role change, org update, team change, task
\* update or task delete, project update or delete writes for a caller for
\* whom no org-level or project-level check has succeeded.
C22_MutationOnlyAfterCheck ==
    (svc.pc = "done" /\ svc.answer.mutated) => svc.answer.checks # {}

\* the operations of the task and project services that are scoped to the
\* principal's organization
OrgScopedOps == TaskOps \cup ProjectOrgOps

\* C23: an org-scoped or project-scoped operation invoked by a principal
\* that carries no org_id ends in 400: never in a 403, never in a
\* successful result, and its business logic is never run with an empty
\* org_id.
C23_NoOrgIdIs400 ==
    (svc.pc = "done" /\ svc.op \in OrgScopedOps /\ Falsy(svc.user.org_id))
        => /\ svc.answer.status = "400"
           /\ svc.answer.logic = ""

\* the lookup of the project membership failed
LookupFailed ==
    /\ svc.op = "task.require_project_permission"
    /\ svc.pc = "done"
    /\ ~(svc.lookup.kind = "response" /\ svc.lookup.status = "200")

\* C29: in the task service a failed lookup of the project membership (an
\* exception, a timeout, an answer that is not 200) counts as no
\* membership: a principal that is not org_admin is denied with 403 "Not a
\* member of this project" and never granted, an org_admin is granted.
C29_FailedLookupIsNoMembership ==
    LookupFailed =>
        IF svc.user.org_role = "org_admin"
        THEN /\ svc.answer.perm.status = "ok"
             /\ svc.answer.perm.role = "org_admin"
        ELSE /\ svc.answer.status = "403"
             /\ svc.answer.perm.status = "403"
             /\ svc.answer.perm.detail = <<"Not a member of this project">>
             /\ svc.answer.checks = {}

\* a member of the organization was denied after the lookup timed out
C29_Witness ==
    /\ LookupFailed
    /\ svc.lookup.kind = "TimeoutException"
    /\ svc.user.org_role = "member"
    /\ svc.permission = "view"
    /\ svc.answer.status = "403"
    /\ svc.answer.perm.detail = <<"Not a member of this project">>

(***************************************************************************)
(* The aggregate health probe (checked under SpecHealth)                    *)
(***************************************************************************)
\* the entries of results under the name of the k-th backend
EntriesOf(k) ==
    {e \in health.results : e.name = service_name(ROUTE_MAP[k].attr)}

\* C24: the probe reports one entry for every configured backend whatever
\* the others did: a backend that cannot be reached, is slow or raises is
\* reported "unreachable", every other backend is still probed and gets the
\* entry of its own answer, and the probe as a whole never fails.
C24_ProbePerBackend ==
    /\ \A k \in 1..Len(health.probed) :
        /\ Cardinality(EntriesOf(k)) = 1
        /\ \A e \in EntriesOf(k) :
            /\ health.probed[k].kind # "response" => e.status = "unreachable"
            /\ (health.probed[k].kind = "response"
                  /\ health.probed[k].status = "200") => e.status = "healthy"
    /\ health.pc = "returned"
          => /\ Len(health.probed) = Len(ROUTE_MAP)
             /\ Cardinality(health.results) = Len(ROUTE_MAP)
             /\ health.response = "200"
    /\ health.response \in {"", "200"}

\* the probe returned with the first backend timed out, the second refusing
\* connections and the third healthy
C24_Witness ==
    /\ health.pc = "returned"
    /\ health.probed[1].kind = "TimeoutException"
    /\ health.probed[2].kind = "ConnectError"
    /\ health.probed[3] = [kind |-> "response", status |-> "200"]
    /\ [name |-> "auth_service", status |-> "unreachable"] \in health.results
    /\ [name |-> "project_service", status |-> "healthy"] \in health.results

(***************************************************************************)
(* Memberships (checked under SpecMembers)                                  *)
(***************************************************************************)
\* C27: after any sequence and any interleaving of add_member,
\* remove_member and change_member_role there is at most one membership
\* per (org, user) and per (project, user); and add_member for a pair that
\* already has a membership is answered 409 and writes nothing.
C27_OneMembershipAnd409 ==
    /\ \A table \in MemberTables : Cardinality(Rows(table)) <= 1
    /\ \A i \in 1..Len(txns) :
        (txns[i].op = "add_member" /\ txns[i].pc = "done" /\ txns[i].existing)
            => /\ txns[i].status = "409"
               /\ txns[i].write = NoWrite

====
